---- MODULE Spec2Model ----
(***************************************************************************)
(* Contact identity-resolution and merge engine of the IDI scripts:        *)
(* name normalisation, the deduplicator, the field merge engine and the    *)
(* two-pass batch that materialises contacts and links their relations.    *)
(*                                                                         *)
(* Python values are tagged records (one field name per Python type), a    *)
(* Python dict is a function whose DOMAIN is the set of keys present, and  *)
(* a Python str is a sequence of one-character strings, so that strip(),   *)
(* lower(), title() and the regular expressions act on real characters.    *)
(***************************************************************************)
EXTENDS Integers, Sequences, FiniteSets, TLC

VARIABLES
    \* ContactDataComparator.normalize_name applied to two (first, last) pairs
    n_first1, n_last1, n_first2, n_last2, n_key1, n_key2, n_pc

nameVars == <<n_first1, n_last1, n_first2, n_last2, n_key1, n_key2, n_pc>>

VARIABLES
    \* the field merge engine: the incoming contact, the repository's record of
    \* the same name, the record as the name search returned it, the merged
    \* field set, the field set of a second merge of the same contact into the
    \* merged record, and the position in find-then-merge
    m_new, m_record, m_existing, m_merged, m_again, m_pc

mergeVars == <<m_new, m_record, m_existing, m_merged, m_again, m_pc>>

VARIABLES
    \* deduplicate_contacts: the network it is given, the index of the entry the
    \* loop is at, seen_contacts, deduplicated, the decisions it printed, and
    \* whether the call is running, has returned or has raised
    d_input, d_i, d_seen, d_dedup, d_trace, d_pc,
    \* the name matchers run over the same population: ContactFilter's
    \* idi_name_set, ContactDataComparator's idi_lookup, the contacts
    \* contact_matches_idi reported and those find_idi_match found a match for
    f_idi_name_set, c_idi_lookup, f_matched, c_matched, f_pc

dedupVars == <<d_input, d_i, d_seen, d_dedup, d_trace, d_pc>>
matchVars == <<f_idi_name_set, c_idi_lookup, f_matched, c_matched, f_pc>>

VARIABLES
    \* update_bidirectional_relations: the deduplicated network and the ID
    \* mapping it is given, the index of the entry its loop is at, the Relations
    \* field the repository holds for each record, the counter it returns,
    \* whether a request has failed, and whether the call is running
    all_contacts_with_ids, contact_id_mapping, r_i, r_relations, relations_updated,
    r_failed, r_pc

relVars == <<all_contacts_with_ids, contact_id_mapping, r_i, r_relations,
             relations_updated, r_failed, r_pc>>

VARIABLES
    \* the network discovery of test_5_contacts: the population by internal ID,
    \* the seeds, the depth bound, processed_ids, contacts_to_process, the
    \* frames of add_contact_and_relations that are running, the index of the
    \* next seed, and whether the discovery is running
    contact_by_id, initial_contacts, t_max_depth, processed_ids, contacts_to_process,
    t_stack, t_next, t_pc

travVars == <<contact_by_id, initial_contacts, t_max_depth, processed_ids,
              contacts_to_process, t_stack, t_next, t_pc>>

VARIABLES
    \* find_existing_contact: the candidate, the records of the repository that
    \* its name search selects (in the repository's order), what the search
    \* returned, the number of search requests issued, the result, and whether
    \* the call is running
    e_contact_data, e_records, e_matches, e_searches, e_result, e_pc

findVars == <<e_contact_data, e_records, e_matches, e_searches, e_result, e_pc>>

VARIABLES
    \* test_5_contacts from the deduplication on: the records of the
    \* repository's contacts table, the index of the entry pass 1 is at, the
    \* requests issued so far, what update_or_create_contact returned for each
    \* entry, and the position of the batch
    b_records, b_i, b_requests, b_returned, b_pc

batchVars == <<b_records, b_i, b_requests, b_returned, b_pc>>

VARIABLES
    \* format_phone_number applied to one value, and the Phone field after the
    \* merge of that value into a record without a phone
    p_phone, p_formatted, p_merged, p_pc

phoneVars == <<p_phone, p_formatted, p_merged, p_pc>>

VARIABLES
    \* ContactDataComparator.calculate_score: the contact, the two populations
    \* the comparator holds, the is_idi flag, and the dict returned
    s_contact, s_idi_contacts, s_filtered_contacts, s_is_idi, s_result, s_pc

scoreVars == <<s_contact, s_idi_contacts, s_filtered_contacts, s_is_idi, s_result, s_pc>>

vars == <<nameVars, mergeVars, dedupVars, matchVars, relVars, travVars, findVars,
          batchVars, phoneVars, scoreVars>>

\* what the actions of one specification leave alone
notName == <<mergeVars, dedupVars, matchVars, relVars, travVars, findVars, batchVars,
    phoneVars, scoreVars>>
notMerge == <<nameVars, dedupVars, matchVars, relVars, travVars, findVars, batchVars,
    phoneVars, scoreVars>>
notDedup == <<nameVars, mergeVars, relVars, travVars, findVars, batchVars,
    phoneVars, scoreVars>>
notRelations == <<nameVars, mergeVars, dedupVars, matchVars, travVars, findVars, batchVars,
    phoneVars, scoreVars>>
notTraverse == <<nameVars, mergeVars, dedupVars, matchVars, relVars, findVars, batchVars,
    phoneVars, scoreVars>>
notFind == <<nameVars, mergeVars, dedupVars, matchVars, relVars, travVars, batchVars,
    phoneVars, scoreVars>>
notPhone == <<nameVars, mergeVars, dedupVars, matchVars, relVars, travVars, findVars,
    batchVars, scoreVars>>
notScore == <<nameVars, mergeVars, dedupVars, matchVars, relVars, travVars, findVars,
    batchVars, phoneVars>>
notBatch == <<nameVars, mergeVars, matchVars, travVars, findVars,
    phoneVars, scoreVars>>

(***************************************************************************)
(* Python values                                                           *)
(***************************************************************************)
PyNone == [n |-> TRUE]
PyStr(s) == [s |-> s]
PyInt(i) == [i |-> i]
PyBool(b) == [b |-> b]
PyList(l) == [l |-> l]

IsNone(v) == DOMAIN v = {"n"}
IsStr(v) == DOMAIN v = {"s"}
IsInt(v) == DOMAIN v = {"i"}
IsBool(v) == DOMAIN v = {"b"}
IsList(v) == DOMAIN v = {"l"}

\* bool(v): the truth value Python gives v in `if v` and `a and b`
Truthy(v) ==
    IF IsNone(v) THEN FALSE
    ELSE IF IsStr(v) THEN Len(v.s) > 0
    ELSE IF IsInt(v) THEN v.i # 0
    ELSE IF IsBool(v) THEN v.b
    ELSE Len(v.l) > 0

\* d.get(k): the value under k, None when the key is absent
Get(d, k) == IF k \in DOMAIN d THEN d[k] ELSE PyNone

\* d.get(k, default)
GetDefault(d, k, default) == IF k \in DOMAIN d THEN d[k] ELSE default

\* (v or ""): the str that `or` leaves
OrEmpty(v) == IF Truthy(v) THEN v ELSE PyStr(<<>>)

\* {}
EmptyDict == [f \in {} |-> PyNone]

\* the elements of a list
Range(seq) == {seq[k] : k \in DOMAIN seq}

\* d[k] = v on a dict
DictSet(d, k, v) == [x \in DOMAIN d \cup {k} |-> IF x = k THEN v ELSE d[x]]

(***************************************************************************)
(* Python str methods, on sequences of characters                          *)
(***************************************************************************)
LowerChars == <<"a","b","c","d","e","f","g","h","i","j","k","l","m",
                "n","o","p","q","r","s","t","u","v","w","x","y","z">>
UpperChars == <<"A","B","C","D","E","F","G","H","I","J","K","L","M",
                "N","O","P","Q","R","S","T","U","V","W","X","Y","Z">>
DigitChars == {"0","1","2","3","4","5","6","7","8","9"}
SpaceChars == {" ", "\t", "\n"}

IsLowerChar(c) == \E k \in DOMAIN LowerChars : LowerChars[k] = c
IsUpperChar(c) == \E k \in DOMAIN UpperChars : UpperChars[k] = c
IsCased(c) == IsLowerChar(c) \/ IsUpperChar(c)

ToLower(c) ==
    IF IsUpperChar(c)
    THEN LowerChars[CHOOSE k \in DOMAIN UpperChars : UpperChars[k] = c]
    ELSE c

ToUpper(c) ==
    IF IsLowerChar(c)
    THEN UpperChars[CHOOSE k \in DOMAIN LowerChars : LowerChars[k] = c]
    ELSE c

\* str.lower()
Lower(s) == [k \in DOMAIN s |-> ToLower(s[k])]

\* str.upper()
Upper(s) == [k \in DOMAIN s |-> ToUpper(s[k])]

\* str.strip(): leading and trailing whitespace removed
Strip(s) ==
    LET keep == {k \in DOMAIN s : s[k] \notin SpaceChars}
    IN  IF keep = {} THEN <<>>
        ELSE LET lo == CHOOSE k \in keep : \A j \in keep : k <= j
                 hi == CHOOSE k \in keep : \A j \in keep : k >= j
             IN  SubSeq(s, lo, hi)

\* str.isupper(): some cased character, and no lower-case one
IsUpperStr(s) ==
    /\ \E k \in DOMAIN s : IsCased(s[k])
    /\ \A k \in DOMAIN s : ~IsLowerChar(s[k])

\* str.title(): a cased character is upper-cased after an uncased one (or at
\* the start) and lower-cased after a cased one
Title(s) ==
    [k \in DOMAIN s |->
        IF k > 1 /\ IsCased(s[k - 1]) THEN ToLower(s[k]) ELSE ToUpper(s[k])]

\* str.startswith(p)
StartsWith(s, p) == Len(s) >= Len(p) /\ SubSeq(s, 1, Len(p)) = p

(***************************************************************************)
(* Name Normalizer                                                         *)
(***************************************************************************)
\* normalize_name(first_name, last_name): f"{first}|{last}"
normalize_name(first_name, last_name) ==
    LET first == Lower(Strip(OrEmpty(first_name).s))
        last == Lower(Strip(OrEmpty(last_name).s))
    IN  first \o <<"|">> \o last

(***************************************************************************)
(* Deduplicator                                                            *)
(***************************************************************************)
DedupAgeThreshold == 2

Abs(x) == IF x < 0 THEN -x ELSE x

\* (contact.get(field) or '').strip()
StrippedField(contact, field) == Strip(OrEmpty(Get(contact, field)).s)

\* key = f"{first_name.lower()}|{last_name.lower()}"
DedupKey(contact) ==
    Lower(StrippedField(contact, "First Name")) \o <<"|">>
        \o Lower(StrippedField(contact, "Last Name"))

\* if suffix and existing_suffix and suffix.lower() != existing_suffix.lower()
DifferentSuffixes(contact, existing_contact) ==
    LET suffix == StrippedField(contact, "Suffix")
        existing_suffix == StrippedField(existing_contact, "Suffix")
    IN  suffix # <<>> /\ existing_suffix # <<>> /\ Lower(suffix) # Lower(existing_suffix)

\* the age check with a difference of 3 still taken for the same person
DifferentAges_Over3(contact, existing_contact) ==
    LET age == Get(contact, "Age")
        existing_age == Get(existing_contact, "Age")
    IN  /\ Truthy(age) /\ Truthy(existing_age)
        /\ Abs(age.i - existing_age.i) > 3

\* if age and existing_age and abs(age - existing_age) > 2
DifferentAges(contact, existing_contact) ==
    LET age == Get(contact, "Age")
        existing_age == Get(existing_contact, "Age")
    IN  /\ Truthy(age) /\ Truthy(existing_age)
        /\ Abs(age.i - existing_age.i) > DedupAgeThreshold

\* contact.get("Relation to Owner", ""): the value under the key, also when
\* it is None
RelationValue(contact) == GetDefault(contact, "Relation to Owner", PyStr(<<>>))

\* .strip() on it raises AttributeError unless it is a str
RelationRaises(contact) == ~IsStr(RelationValue(contact))

\* contact.get("Relation to Owner", "").strip().lower()
RelationLower(contact) == Lower(Strip(RelationValue(contact).s))

sowner == <<"o","w","n","e","r">>

\* sum(1 for v in contact.values() if v and v != '')
FieldCount(contact) == Cardinality({f \in DOMAIN contact : Truthy(contact[f])})

\* the scan that replaces the stored entry of existing_contact by entry
ReplaceStored(deduplicated, existing_contact, entry) ==
    LET hits == {k \in DOMAIN deduplicated : deduplicated[k][1] = existing_contact}
    IN  IF hits = {} THEN deduplicated
        ELSE LET i == CHOOSE k \in hits : \A j \in hits : k <= j
             IN  [deduplicated EXCEPT ![i] = entry]

\* what one round of the loop decides for contact against the entry stored
\* under its key
DedupVerdict(contact, existing_contact) ==
    IF DifferentSuffixes(contact, existing_contact) THEN "keep_both_suffix"
    ELSE IF DifferentAges(contact, existing_contact) THEN "keep_both_age"
    ELSE IF RelationRaises(contact) \/ RelationRaises(existing_contact) THEN "raised"
    ELSE IF RelationLower(contact) = sowner /\ RelationLower(existing_contact) # sowner
        THEN "replace_owner"
    ELSE IF RelationLower(existing_contact) = sowner /\ RelationLower(contact) # sowner
        THEN "keep_owner"
    ELSE IF FieldCount(contact) > FieldCount(existing_contact) THEN "replace_fields"
    ELSE "keep_fields"

(***************************************************************************)
(* Name matchers of the filter and of the comparator                       *)
(***************************************************************************)
\* ContactFilter.load_idi_contacts: the name keys of the IDI contacts that
\* have a first or a last name
LoadIdiNameSet(idi_contacts) ==
    {normalize_name(Get(c, "First Name"), Get(c, "Last Name")) :
        c \in {x \in Range(idi_contacts) :
                  Truthy(Get(x, "First Name")) \/ Truthy(Get(x, "Last Name"))}}

\* ContactDataComparator.load_data: name key -> the IDI contacts under it, in
\* file order
LoadIdiLookup(idi_contacts) ==
    LET named == SelectSeq(idi_contacts,
                    LAMBDA c : Truthy(Get(c, "First Name")) \/ Truthy(Get(c, "Last Name")))
        keyOf(c) == normalize_name(Get(c, "First Name"), Get(c, "Last Name"))
    IN  [key \in {keyOf(c) : c \in Range(named)} |->
            SelectSeq(named, LAMBDA c : keyOf(c) = key)]

\* ContactFilter.contact_matches_idi(contact)
contact_matches_idi(contact, idi_name_set) ==
    LET first_name == GetDefault(contact, "First Name", PyStr(<<>>))
        last_name == GetDefault(contact, "Last Name", PyStr(<<>>))
    IN  IF ~Truthy(first_name) /\ ~Truthy(last_name) THEN FALSE
        ELSE normalize_name(first_name, last_name) \in idi_name_set

\* ContactDataComparator.find_idi_match(airtable_contact): the first IDI
\* contact under the name key, None when there is none
find_idi_match(airtable_contact, idi_lookup) ==
    LET name_key == normalize_name(GetDefault(airtable_contact, "First Name", PyStr(<<>>)),
                                   GetDefault(airtable_contact, "Last Name", PyStr(<<>>)))
    IN  IF name_key \in DOMAIN idi_lookup THEN idi_lookup[name_key][1] ELSE PyNone

(***************************************************************************)
(* Field formatting                                                        *)
(***************************************************************************)
NamePrefixes == << <<"M","c">>, <<"M","a","c">>, <<"O","'">>, <<"D","e">>,
                   <<"V","a","n">>, <<"V","o","n">>, <<"L","a">>, <<"L","e">> >>

\* one round of the prefix loop of title_case_name
ApplyPrefix(name, prefix) ==
    IF StartsWith(name, Title(prefix)) /\ Len(name) > Len(prefix)
    THEN LET rest == SubSeq(name, Len(prefix) + 1, Len(name))
         IN  prefix \o <<ToUpper(rest[1])>> \o SubSeq(rest, 2, Len(rest))
    ELSE name

RECURSIVE PrefixLoop(_, _)
PrefixLoop(name, k) ==
    IF k > Len(NamePrefixes) THEN name
    ELSE PrefixLoop(ApplyPrefix(name, NamePrefixes[k]), k + 1)

\* title_case_name(name), on a str
title_case_name(name) ==
    IF name = <<>> THEN name ELSE PrefixLoop(Title(name), 1)

\* _get_field_type(field_name)
_get_field_type(field_name) ==
    IF field_name \in {"First Name", "Last Name", "Middle Name", "Maiden Name"} THEN "name"
    ELSE IF field_name = "Email" THEN "email"
    ELSE IF field_name = "Relation to Owner" THEN "relation"
    ELSE "general"

\* clean_and_format_text(text, field_type), on a Python value
clean_and_format_text(text, field_type) ==
    IF ~Truthy(text) \/ ~IsStr(text) THEN text
    ELSE LET t == Strip(text.s)
         IN  IF field_type = "email" THEN PyStr(Lower(t))
             ELSE IF field_type = "name" THEN PyStr(title_case_name(t))
             ELSE IF field_type = "relation" THEN PyStr(Title(t))
             ELSE IF field_type = "general"
                  THEN IF IsUpperStr(t) /\ Len(t) > 2 THEN PyStr(Title(t)) ELSE PyStr(t)
             ELSE PyStr(t)

\* re.sub(r'\D', '', phone)
DigitsOf(s) == SelectSeq(s, LAMBDA c : c \in DigitChars)

\* format_phone_number formatting every number of eleven digits
format_phone_number_AnyEleven(phone) ==
    IF ~Truthy(phone) THEN phone
    ELSE LET digits == DigitsOf(phone.s)
         IN  IF Len(digits) = 10
             THEN PyStr(<<"(">> \o SubSeq(digits, 1, 3) \o <<")", " ">>
                        \o SubSeq(digits, 4, 6) \o <<"-">> \o SubSeq(digits, 7, 10))
             ELSE IF Len(digits) = 11
             THEN PyStr(<<"(">> \o SubSeq(digits, 2, 4) \o <<")", " ">>
                        \o SubSeq(digits, 5, 7) \o <<"-">> \o SubSeq(digits, 8, 11))
             ELSE phone

\* format_phone_number(phone), on a Python str or None
format_phone_number(phone) ==
    IF ~Truthy(phone) THEN phone
    ELSE LET digits == DigitsOf(phone.s)
         IN  IF Len(digits) = 10
             THEN PyStr(<<"(">> \o SubSeq(digits, 1, 3) \o <<")", " ">>
                        \o SubSeq(digits, 4, 6) \o <<"-">> \o SubSeq(digits, 7, 10))
             ELSE IF Len(digits) = 11 /\ digits[1] = "1"
             THEN PyStr(<<"(">> \o SubSeq(digits, 2, 4) \o <<")", " ">>
                        \o SubSeq(digits, 5, 7) \o <<"-">> \o SubSeq(digits, 8, 11))
             ELSE phone

(***************************************************************************)
(* Field Merge Engine                                                      *)
(***************************************************************************)
\* the fields= parameter of the name search
SearchFields == {"First Name", "Last Name", "Middle Name", "Suffix", "Age",
                 "Phone", "Email", "Relation to Owner", "Foreclosures"}

\* a record as _search_contacts_by_name returns it: the record id and the
\* requested fields the repository holds for it
SearchProjection(record) ==
    [id |-> record.id,
     fields |-> [f \in (DOMAIN record.fields) \cap SearchFields |-> record.fields[f]]]

\* the exclusion list with the foreclosure link forgotten
excluded_fields_NoForeclosures == {"Contact", "Record ID", "ID", "Full Name", "First and Last",
                                   "Middle Initial", "Addresses", "Communications", "Own",
                                   "Auction (from Foreclosures)", "Claims", "Loans"}

excluded_fields == {"Contact", "Record ID", "ID", "Full Name", "First and Last",
                    "Middle Initial", "Addresses", "Communications", "Own",
                    "Foreclosures", "Auction (from Foreclosures)", "Claims", "Loans"}

merge_fields == <<"First Name", "Last Name", "Middle Name", "Suffix", "Age",
                  "Phone", "Email", "Relation to Owner", "Company Name", "Maiden Name",
                  "Deceased", "Bankruptcy", "Sex", "Birth Year", "DOB", "In Jail">>

sPerson == <<"P","e","r","s","o","n">>

\* the clean slate _merge_contact_data starts from
MergeMarkers == [f \in {"IDI", "Traced", "Entity Type"} |->
                    IF f = "Entity Type" THEN PyStr(sPerson) ELSE PyBool(TRUE)]

\* _is_field_empty(value): None, a blank str, or a number equal to 0 (a bool
\* is an int to isinstance, so False is empty)
_is_field_empty(value) ==
    \/ IsNone(value)
    \/ IsStr(value) /\ Strip(value.s) = <<>>
    \/ IsInt(value) /\ value.i = 0
    \/ IsBool(value) /\ ~value.b

\* the copy loop: every existing field that is not excluded
CopyExisting(existing_fields) ==
    LET copied == (DOMAIN existing_fields) \ excluded_fields
    IN  [f \in DOMAIN MergeMarkers \cup copied |->
            IF f \in copied THEN existing_fields[f] ELSE MergeMarkers[f]]

\* the merge round that prefers the incoming value whenever there is one
MergeField_PreferNew(merged, field, new_contact, existing_fields) ==
    LET new_value == Get(new_contact, field)
        existing_value == Get(existing_fields, field)
    IN  IF Truthy(new_value)
        THEN IF field = "Phone"
             THEN DictSet(merged, field, format_phone_number(new_value))
             ELSE DictSet(merged, field,
                          clean_and_format_text(new_value, _get_field_type(field)))
        ELSE IF Truthy(existing_value)
        THEN DictSet(merged, field, existing_value)
        ELSE merged

\* the merge round that always writes an incoming boolean
MergeField_BooleansFromNew(merged, field, new_contact, existing_fields) ==
    LET new_value == Get(new_contact, field)
        existing_value == Get(existing_fields, field)
    IN  IF field \in {"Deceased", "Bankruptcy"} /\ ~IsNone(new_value)
        THEN DictSet(merged, field, new_value)
        ELSE IF _is_field_empty(existing_value) /\ Truthy(new_value)
        THEN IF field = "Phone"
             THEN DictSet(merged, field, format_phone_number(new_value))
             ELSE DictSet(merged, field,
                          clean_and_format_text(new_value, _get_field_type(field)))
        ELSE IF Truthy(existing_value)
        THEN DictSet(merged, field, existing_value)
        ELSE merged

\* the merge round that appends an incoming string to the existing string when
\* both sides hold one
MergeField_Accumulates(merged, field, new_contact, existing_fields) ==
    LET new_value == Get(new_contact, field)
        existing_value == Get(existing_fields, field)
    IN  IF _is_field_empty(existing_value) /\ Truthy(new_value)
        THEN IF field = "Phone"
             THEN DictSet(merged, field, format_phone_number(new_value))
             ELSE DictSet(merged, field,
                          clean_and_format_text(new_value, _get_field_type(field)))
        ELSE IF Truthy(existing_value)
        THEN IF IsStr(existing_value) /\ IsStr(new_value) /\ Truthy(new_value)
             THEN DictSet(merged, field, PyStr(existing_value.s \o new_value.s))
             ELSE DictSet(merged, field, existing_value)
        ELSE merged

\* one round of the merge loop
MergeField(merged, field, new_contact, existing_fields) ==
    LET new_value == Get(new_contact, field)
        existing_value == Get(existing_fields, field)
    IN  IF _is_field_empty(existing_value) /\ Truthy(new_value)
        THEN IF field = "Phone"
             THEN DictSet(merged, field, format_phone_number(new_value))
             ELSE DictSet(merged, field,
                          clean_and_format_text(new_value, _get_field_type(field)))
        ELSE IF Truthy(existing_value)
        THEN DictSet(merged, field, existing_value)
        ELSE merged

RECURSIVE MergeLoop(_, _, _, _)
MergeLoop(merged, k, new_contact, existing_fields) ==
    IF k > Len(merge_fields) THEN merged
    ELSE MergeLoop(MergeField(merged, merge_fields[k], new_contact, existing_fields),
                   k + 1, new_contact, existing_fields)

\* _merge_contact_data(new_contact, existing_contact)
_merge_contact_data(new_contact, existing_contact) ==
    LET existing_fields == existing_contact.fields
    IN  MergeLoop(CopyExisting(existing_fields), 1, new_contact, existing_fields)

DedupIdle ==
    /\ d_input = <<>>
    /\ d_i = 1
    /\ d_seen = EmptyDict
    /\ d_dedup = <<>>
    /\ d_trace = <<>>
    /\ d_pc = "idle"
    /\ f_idi_name_set = {}
    /\ c_idi_lookup = EmptyDict
    /\ f_matched = {}
    /\ c_matched = {}
    /\ f_pc = "idle"

RelationsIdle ==
    /\ all_contacts_with_ids = <<>>
    /\ contact_id_mapping = EmptyDict
    /\ r_i = 1
    /\ r_relations = EmptyDict
    /\ relations_updated = 0
    /\ r_failed = FALSE
    /\ r_pc = "idle"

TraverseIdle ==
    /\ contact_by_id = EmptyDict
    /\ initial_contacts = <<>>
    /\ t_max_depth = 0
    /\ processed_ids = {}
    /\ contacts_to_process = <<>>
    /\ t_stack = <<>>
    /\ t_next = 1
    /\ t_pc = "idle"

FindIdle ==
    /\ e_contact_data = EmptyDict
    /\ e_records = <<>>
    /\ e_matches = <<>>
    /\ e_searches = 0
    /\ e_result = PyNone
    /\ e_pc = "idle"

BatchIdle ==
    /\ b_records = <<>>
    /\ b_i = 1
    /\ b_requests = <<>>
    /\ b_returned = <<>>
    /\ b_pc = "idle"

PhoneIdle ==
    /\ p_phone = PyNone
    /\ p_formatted = PyNone
    /\ p_merged = EmptyDict
    /\ p_pc = "idle"

ScoreIdle ==
    /\ s_contact = EmptyDict
    /\ s_idi_contacts = <<>>
    /\ s_filtered_contacts = <<>>
    /\ s_is_idi = FALSE
    /\ s_result = EmptyDict
    /\ s_pc = "idle"

NameIdle ==
    /\ n_first1 = PyNone /\ n_last1 = PyNone
    /\ n_first2 = PyNone /\ n_last2 = PyNone
    /\ n_key1 = <<>>
    /\ n_key2 = <<>>
    /\ n_pc = "idle"

(***************************************************************************)
(* Specification SpecMerge: a contact of the input artifact is merged into *)
(* the record the name search returned for it                              *)
(***************************************************************************)
MaxNewFields == 1
MaxRecordFields == 1

sMcd == <<"m","c","d">>
sAl == <<" ","a","L">>
sJR == <<"J","R">>
sIII == <<"I","I","I">>
sBlank == <<" ">>
sTen == <<"5","5","5","1","2","3","4","5","6","7">>
sSeven == <<"5","5","5","-","1","2","3","4">>
sOldPhone == <<"(","5","5","5",")"," ","9","9","9","-","0","0","0","0">>
sMail == <<"A","@","b",".","C">>
sSPOUSE == <<"S","P","O","U","S","E">>
sOwner == <<"O","w","n","e","r">>
sAcme == <<"A","C","M","E">>
sM == <<"M">>
sDob == <<"1","9","8","0","-","0","1","-","0","2">>
sRecA == <<"r","e","c","A">>
sRecB == <<"r","e","c","B">>
sRecC == <<"r","e","c","C">>
sFcl == <<"r","e","c","F">>
sFull == <<"A","l"," ","B","o">>
sStamp == <<"2","0","2","5">>

\* the values a field of a contact of the input artifact can hold
NewValues(f) ==
    IF f \in {"First Name", "Last Name", "Middle Name", "Maiden Name"}
        THEN {PyStr(sMcd), PyStr(sAl), PyStr(sBlank)}
    ELSE IF f = "Suffix" THEN {PyStr(sJR), PyStr(sIII)}
    ELSE IF f \in {"Age", "Birth Year"} THEN {PyInt(0), PyInt(45)}
    ELSE IF f = "Phone" THEN {PyStr(sTen), PyStr(sSeven), PyStr(sBlank)}
    ELSE IF f = "Email" THEN {PyStr(sMail), PyStr(<<>>)}
    ELSE IF f = "Relation to Owner" THEN {PyStr(sSPOUSE), PyStr(sOwner)}
    ELSE IF f = "Company Name" THEN {PyStr(sAcme), PyStr(<<>>)}
    ELSE IF f = "Sex" THEN {PyStr(sM)}
    ELSE IF f = "DOB" THEN {PyStr(sDob)}
    ELSE {PyBool(FALSE), PyBool(TRUE)}

\* the fields a repository record can hold: the searchable ones, the other
\* mergeable ones, and computed, link and system fields
RecordFields == SearchFields \cup {"Deceased", "Bankruptcy", "Company Name",
                                   "Full Name", "Record ID", "Relations", "Created"}

\* the values the repository can hold under a field
RecordValues(f) ==
    IF f \in {"First Name", "Last Name", "Middle Name"}
        THEN {PyStr(sMcd), PyStr(sBlank), PyStr(<<>>), PyNone}
    ELSE IF f = "Suffix" THEN {PyStr(sJR), PyStr(<<>>)}
    ELSE IF f = "Age" THEN {PyInt(0), PyInt(40), PyNone}
    ELSE IF f = "Phone" THEN {PyStr(sOldPhone), PyStr(sBlank), PyNone}
    ELSE IF f = "Email" THEN {PyStr(sMail), PyStr(<<>>)}
    ELSE IF f = "Relation to Owner" THEN {PyStr(sOwner), PyNone}
    ELSE IF f = "Company Name" THEN {PyStr(sAcme), PyStr(sBlank)}
    ELSE IF f \in {"Foreclosures", "Relations"} THEN {PyList(<<sFcl>>), PyList(<<>>)}
    ELSE IF f \in {"Deceased", "Bankruptcy"} THEN {PyBool(FALSE), PyBool(TRUE)}
    ELSE IF f = "Full Name" THEN {PyStr(sFull)}
    ELSE IF f = "Record ID" THEN {PyStr(sRecA)}
    ELSE {PyStr(sStamp)}

\* the contacts of the input artifact that hold at most MaxNewFields of the
\* mergeable fields
NewContacts ==
    UNION {{d \in [D -> UNION {NewValues(f) : f \in D}] :
                \A f \in D : d[f] \in NewValues(f)} :
           D \in {E \in SUBSET Range(merge_fields) : Cardinality(E) <= MaxNewFields}}

\* the field sets of repository records that hold at most MaxRecordFields
\* fields
RecordFieldSets ==
    UNION {{d \in [D -> UNION {RecordValues(f) : f \in D}] :
                \A f \in D : d[f] \in RecordValues(f)} :
           D \in {E \in SUBSET RecordFields : Cardinality(E) <= MaxRecordFields}}

MergeIdle ==
    /\ m_new = EmptyDict
    /\ m_record = [id |-> sRecA, fields |-> EmptyDict]
    /\ m_existing = PyNone
    /\ m_merged = EmptyDict
    /\ m_again = EmptyDict
    /\ m_pc = "idle"

MergeInit ==
    /\ NameIdle
    /\ DedupIdle
    /\ RelationsIdle
    /\ TraverseIdle
    /\ FindIdle
    /\ BatchIdle
    /\ PhoneIdle
    /\ ScoreIdle
    /\ m_new \in NewContacts
    /\ m_record \in {[id |-> sRecA, fields |-> d] : d \in RecordFieldSets}
    /\ m_existing = PyNone
    /\ m_merged = EmptyDict
    /\ m_again = EmptyDict
    /\ m_pc = "search"

\* _search_contacts_by_name returns the record, with the requested fields
SearchContact ==
    /\ m_pc = "search"
    /\ m_existing' = SearchProjection(m_record)
    /\ m_pc' = "merge"
    /\ UNCHANGED <<m_new, m_record, m_merged, m_again>>
    /\ UNCHANGED notMerge

\* update_or_create_contact merges the contact into the record found
MergeContact ==
    /\ m_pc = "merge"
    /\ m_merged' = _merge_contact_data(m_new, m_existing)
    /\ m_pc' = "done"
    /\ UNCHANGED <<m_new, m_record, m_existing, m_again>>
    /\ UNCHANGED notMerge

\* the same contact is merged once more, into the record whose fields are the
\* field set the first merge returned
MergeAgain ==
    /\ m_pc = "done"
    /\ m_again' = _merge_contact_data(m_new, [id |-> m_existing.id, fields |-> m_merged])
    /\ m_pc' = "again"
    /\ UNCHANGED <<m_new, m_record, m_existing, m_merged>>
    /\ UNCHANGED notMerge

MergeNext == SearchContact \/ MergeContact \/ MergeAgain

SpecMerge == MergeInit /\ [][MergeNext]_vars

(***************************************************************************)
(* Claims on the field merge engine                                        *)
(***************************************************************************)
\* an existing value that is empty: none (or absent), a blank string, a
\* numeric zero, or false (the zero of a boolean)
ExistingIsEmpty(v) ==
    \/ IsNone(v)
    \/ IsStr(v) /\ \A k \in DOMAIN v.s : v.s[k] \in SpaceChars
    \/ v = PyInt(0)
    \/ v = PyBool(FALSE)

\* an incoming value that is non-empty: not none, not "", not 0, not false
NewIsNonEmpty(v) == v \notin {PyNone, PyStr(<<>>), PyInt(0), PyBool(FALSE)}

\* the incoming value after the formatting of its field class
Formatted(field, v) ==
    IF field = "Phone" THEN format_phone_number(v)
    ELSE clean_and_format_text(v, _get_field_type(field))

\* the merged field set holds exactly what the existing record holds under field
KeepsExisting(field) ==
    IF field \in DOMAIN m_existing.fields
    THEN field \in DOMAIN m_merged /\ m_merged[field] = m_existing.fields[field]
    ELSE field \notin DOMAIN m_merged

\* C2: _merge_contact_data never overwrites existing data: for every mergeable
\* field the merged value is the formatted new value when the existing value
\* is empty and the new value is non-empty, and in every other case it is the
\* existing value, unchanged.
C2_MergeNeverOverwrites ==
    m_pc = "done" =>
        \A f \in Range(merge_fields) :
            IF ExistingIsEmpty(Get(m_existing.fields, f)) /\ NewIsNonEmpty(Get(m_new, f))
            THEN f \in DOMAIN m_merged /\ m_merged[f] = Formatted(f, Get(m_new, f))
            ELSE KeepsExisting(f)

\* C2 witness: the merge met a field that both sides hold non-empty and kept
\* the existing value, which differs from the formatted new one
C2_Witness ==
    /\ m_pc = "done"
    /\ \E f \in Range(merge_fields) :
        /\ ~ExistingIsEmpty(Get(m_existing.fields, f))
        /\ NewIsNonEmpty(Get(m_new, f))
        /\ m_merged[f] = m_existing.fields[f]
        /\ m_merged[f] # Formatted(f, Get(m_new, f))

BooleanFields == {"Deceased", "Bankruptcy"}

\* what the record holds under field once the update (a PATCH of the merged
\* field set) is applied: a field the update leaves out keeps its value
RecordAfterUpdate(field) ==
    IF field \in DOMAIN m_merged THEN m_merged[field] ELSE Get(m_record.fields, field)

IsTrue(v) == v = PyBool(TRUE)

\* C3 as stated: when a contact is merged into an existing record, Deceased
\* and Bankruptcy end up as the incoming values, whatever the existing record
\* holds (existing true and new false gives false).
C3_BooleansAlwaysFromNew ==
    m_pc = "done" =>
        \A f \in BooleanFields :
            f \in DOMAIN m_new => (IsTrue(RecordAfterUpdate(f)) <=> IsTrue(m_new[f]))

\* C3 amended: Deceased and Bankruptcy are merged like every other mergeable
\* field: an incoming true is written when the existing value the merge sees
\* is empty, an incoming false is never written, and so the record holds true
\* after the update exactly when it held true before or the incoming value
\* is true.
C3_BooleansMergedLikeOthers ==
    m_pc = "done" =>
        \A f \in BooleanFields :
            /\ IsTrue(Get(m_new, f)) => f \in DOMAIN m_merged /\ IsTrue(m_merged[f])
            /\ ~IsTrue(Get(m_new, f)) => KeepsExisting(f)
            /\ IsTrue(RecordAfterUpdate(f))
                    <=> (IsTrue(Get(m_record.fields, f)) \/ IsTrue(Get(m_new, f)))

\* C3 witness: an incoming false met a record that holds true, and the record
\* still holds true after the update
C3_Witness ==
    /\ m_pc = "done"
    /\ \E f \in BooleanFields :
        /\ Get(m_new, f) = PyBool(FALSE)
        /\ IsTrue(Get(m_record.fields, f))
        /\ IsTrue(RecordAfterUpdate(f))

C29_MergeIdempotent == m_pc = "again" => m_again = m_merged

\* C29 witness: the first merge wrote a formatted incoming value into an empty
\* field of the record, and the second merge has returned the same field set.
C29_Witness ==
    /\ m_pc = "again"
    /\ \E f \in Range(merge_fields) :
        /\ ExistingIsEmpty(Get(m_existing.fields, f))
        /\ NewIsNonEmpty(Get(m_new, f))
        /\ m_merged[f] = Formatted(f, m_new[f])
        /\ m_merged[f] # m_new[f]
        /\ m_again = m_merged

(***************************************************************************)
(* Specification SpecDedup: deduplicate_contacts over a network of the     *)
(* input artifact, then the name matchers over the same population         *)
(***************************************************************************)
MaxContacts == 3
MaxVaried == 1

sAlName == <<"A","l">>
sALpad == <<"A","L"," ">>
sBo == <<"B","o">>
sbo == <<"b","o">>
sJr == <<"J","r">>
sSr == <<"S","r">>
sSpouse == <<"S","p","o","u","s","e">>

\* first and last name, as the artifact holds them: absent names are null
PlainNames == <<PyStr(sAlName), PyStr(sBo)>>
DedupNames == {PlainNames, <<PyNone, PyNone>>, <<PyStr(sBlank), PyNone>>,
               <<PyStr(sALpad), PyStr(sbo)>>}

\* the relationship label: null for a relative without one
DedupRelations == {PyNone, PyStr(sOwner), PyStr(sSpouse)}

DedupSuffixes == {PyNone, PyStr(sJr), PyStr(sJR), PyStr(sSr)}

DedupAges == {PyNone, PyInt(0), PyInt(40), PyInt(42), PyInt(43)}

\* names, suffix and age of a contact: at most MaxVaried of them differ from
\* a plainly named contact that has no suffix and no age
DedupProfiles ==
    {o \in DedupNames \X DedupSuffixes \X DedupAges :
        Cardinality({k \in 1..3 : o[k] # <<PlainNames, PyNone, PyNone>>[k]}) <= MaxVaried}

\* the contact with internal ID id: every field present, null when missing
DedupContact(id, relation, profile) ==
    [f \in {"ID", "First Name", "Last Name", "Suffix", "Age", "Relation to Owner"} |->
        IF f = "ID" THEN PyInt(id)
        ELSE IF f = "First Name" THEN profile[1][1]
        ELSE IF f = "Last Name" THEN profile[1][2]
        ELSE IF f = "Suffix" THEN profile[2]
        ELSE IF f = "Age" THEN profile[3]
        ELSE relation]

\* the network of n entries that choice describes: internal IDs are unique,
\* the first entry is a seed (depth 0)
DedupNetwork(n, choice) ==
    [k \in 1..n |->
        <<DedupContact(k, choice[k][1], choice[k][2]), IF k = 1 THEN 0 ELSE 1>>]

\* the Airtable contacts the matchers are asked about
ProbeNames == {PyNone, PyStr(<<>>), PyStr(sBlank), PyStr(sAlName), PyStr(sbo)}
ProbeContacts ==
    [{"First Name", "Last Name"} -> ProbeNames]
        \cup {[f \in {"Last Name"} |-> v] : v \in ProbeNames}

DedupInit ==
    /\ NameIdle
    /\ MergeIdle
    /\ RelationsIdle
    /\ TraverseIdle
    /\ FindIdle
    /\ BatchIdle
    /\ PhoneIdle
    /\ ScoreIdle
    /\ \E n \in 1..MaxContacts :
        \E choice \in [1..n -> DedupRelations \X DedupProfiles] :
            d_input = DedupNetwork(n, choice)
    /\ d_i = 1
    /\ d_seen = EmptyDict
    /\ d_dedup = <<>>
    /\ d_trace = <<>>
    /\ d_pc = "loop"
    /\ f_idi_name_set = {}
    /\ c_idi_lookup = EmptyDict
    /\ f_matched = {}
    /\ c_matched = {}
    /\ f_pc = "load"

\* one round of the loop of deduplicate_contacts; the round over the last
\* entry returns the list, and a round that raises ends the call
DedupStep ==
    /\ d_pc = "loop"
    /\ d_i <= Len(d_input)
    /\ LET entry == d_input[d_i]
           contact == entry[1]
           key == DedupKey(contact)
           after == IF d_i = Len(d_input) THEN "done" ELSE "loop"
       IN  IF key \notin DOMAIN d_seen
           THEN /\ d_seen' = DictSet(d_seen, key, entry)
                /\ d_dedup' = Append(d_dedup, entry)
                /\ d_trace' = Append(d_trace, [id |-> contact["ID"].i, with |-> 0,
                                               verdict |-> "first"])
                /\ d_pc' = after
           ELSE LET existing_contact == d_seen[key][1]
                    verdict == DedupVerdict(contact, existing_contact)
                IN  /\ d_trace' = Append(d_trace, [id |-> contact["ID"].i,
                                                   with |-> existing_contact["ID"].i,
                                                   verdict |-> verdict])
                    /\ d_dedup' =
                        IF verdict \in {"keep_both_suffix", "keep_both_age"}
                            THEN Append(d_dedup, entry)
                        ELSE IF verdict \in {"replace_owner", "replace_fields"}
                            THEN ReplaceStored(d_dedup, existing_contact, entry)
                        ELSE d_dedup
                    /\ d_seen' =
                        IF verdict \in {"replace_owner", "replace_fields"}
                            THEN DictSet(d_seen, key, entry)
                        ELSE d_seen
                    /\ d_pc' = IF verdict = "raised" THEN "raised" ELSE after
    /\ d_i' = d_i + 1
    /\ UNCHANGED <<d_input, matchVars>>
    /\ UNCHANGED notDedup

IdiContacts == [k \in DOMAIN d_input |-> d_input[k][1]]

\* the loaders of the filter and of the comparator read the same artifact
LoadIdiContacts ==
    /\ d_pc \in {"done", "raised"}
    /\ f_pc = "load"
    /\ f_idi_name_set' = LoadIdiNameSet(IdiContacts)
    /\ c_idi_lookup' = LoadIdiLookup(IdiContacts)
    /\ f_pc' = "match"
    /\ UNCHANGED <<f_matched, c_matched, dedupVars>>
    /\ UNCHANGED notDedup

\* filter_contacts and the comparison loop ask the matchers about every
\* Airtable contact
MatchContacts ==
    /\ f_pc = "match"
    /\ f_matched' = {c \in ProbeContacts : contact_matches_idi(c, f_idi_name_set)}
    /\ c_matched' = {c \in ProbeContacts : ~IsNone(find_idi_match(c, c_idi_lookup))}
    /\ f_pc' = "done"
    /\ UNCHANGED <<f_idi_name_set, c_idi_lookup, dedupVars>>
    /\ UNCHANGED notDedup

DedupNext == DedupStep \/ LoadIdiContacts \/ MatchContacts

SpecDedup == DedupInit /\ [][DedupNext]_vars

(***************************************************************************)
(* Claims about deduplicate_contacts and the name matchers                 *)
(***************************************************************************)
InputContact(id) == d_input[id][1]

InOutput(id) == \E k \in DOMAIN d_dedup : d_dedup[k][1]["ID"].i = id

SameKey(a, b) == DedupKey(a) = DedupKey(b)

SuffixOf(c) == IF IsStr(c["Suffix"]) THEN c["Suffix"].s ELSE <<>>

\* both suffixes are non-empty and differ case-insensitively
SuffixesDiffer(a, b) ==
    /\ SuffixOf(a) # <<>> /\ SuffixOf(b) # <<>>
    /\ Lower(SuffixOf(a)) # Lower(SuffixOf(b))

\* both ages are numbers and differ by more than 2
NumericAgesDiffer(a, b) ==
    /\ IsInt(a["Age"]) /\ IsInt(b["Age"])
    /\ Abs(a["Age"].i - b["Age"].i) > 2

\* both ages are non-zero numbers and differ by more than 2
NonZeroAgesDiffer(a, b) ==
    /\ NumericAgesDiffer(a, b)
    /\ a["Age"].i # 0 /\ b["Age"].i # 0

\* C5 as stated: in the output of a call that returns, any two entries of the
\* input that share a name key and have differing non-empty suffixes, or
\* numeric ages more than 2 apart, are both present.
C5_DifferentPeopleRetained ==
    d_pc = "done" =>
        \A i, j \in DOMAIN d_input :
            ( /\ i # j
              /\ SameKey(InputContact(i), InputContact(j))
              /\ \/ SuffixesDiffer(InputContact(i), InputContact(j))
                 \/ NumericAgesDiffer(InputContact(i), InputContact(j)) )
            => InOutput(i) /\ InOutput(j)

\* C5, amended: an entry that is processed while the entry stored under its
\* name key has a differing non-empty suffix, or a non-zero age more than 2
\* away from its own non-zero age, is put on the deduplicated list and stays
\* on it in every later round, so it is in the output of a call that returns.
C5_DifferentFromStoredRetained ==
    \A k \in DOMAIN d_trace :
        LET round == d_trace[k]
        IN  ( /\ round.with # 0
              /\ \/ SuffixesDiffer(InputContact(round.id), InputContact(round.with))
                 \/ NonZeroAgesDiffer(InputContact(round.id), InputContact(round.with)) )
            => InOutput(round.id)

\* a call over three entries has returned; it compared the second and the
\* third entry with the first and kept each as a different person
C5_Witness ==
    /\ d_pc = "done"
    /\ Len(d_trace) = 3
    /\ \A k \in {2, 3} :
        /\ d_trace[k].with = 1
        /\ d_trace[k].verdict \in {"keep_both_suffix", "keep_both_age"}
        /\ \/ SuffixesDiffer(InputContact(k), InputContact(1))
           \/ NonZeroAgesDiffer(InputContact(k), InputContact(1))
        /\ InOutput(k)

\* C6 as stated: in the output of a call that returns, every two entries with
\* one name key have differing non-empty suffixes or numeric ages more than 2
\* apart.
C6_OutputHasNoSamePerson ==
    d_pc = "done" =>
        \A i, j \in DOMAIN d_dedup :
            (i # j /\ SameKey(d_dedup[i][1], d_dedup[j][1]))
            => \/ SuffixesDiffer(d_dedup[i][1], d_dedup[j][1])
               \/ NumericAgesDiffer(d_dedup[i][1], d_dedup[j][1])

\* the round that has just run, if it compared its entry with a stored one
Compared == d_trace # <<>> /\ d_trace[Len(d_trace)].with # 0

Current == InputContact(d_trace[Len(d_trace)].id)

Stored == InputContact(d_trace[Len(d_trace)].with)

\* the deduplicator took the two entries of the round for the same person
JudgedSame == ~DifferentSuffixes(Current, Stored) /\ ~DifferentAges(Current, Stored)

\* Relation to Owner equals "owner", case-insensitively
IsOwner(c) ==
    /\ IsStr(c["Relation to Owner"])
    /\ Lower(c["Relation to Owner"].s) = sowner

\* C7 as stated: after a round that takes its entry and the stored entry for
\* the same person, exactly one of them being an owner, the round has not
\* raised, the owner entry is on the list and the other entry is not.
C7_OwnerWins ==
    (Compared /\ JudgedSame /\ IsOwner(Current) # IsOwner(Stored)) =>
        LET owner == IF IsOwner(Current) THEN Current ELSE Stored
            other == IF IsOwner(Current) THEN Stored ELSE Current
        IN  /\ d_pc # "raised"
            /\ InOutput(owner["ID"].i)
            /\ ~InOutput(other["ID"].i)

\* the fields that are present, not null and not an empty string
NonEmptyCount(c) ==
    Cardinality({f \in DOMAIN c : ~IsNone(c[f]) /\ c[f] # PyStr(<<>>)})

\* C8 as stated: after a round that takes its entry and the stored entry for
\* the same person, both owners or both not, the round has not raised and only
\* the entry with strictly more non-empty fields is on the list, the stored
\* one when the counts are equal; false, 0 and [] count as non-empty.
C8_MoreFieldsWins ==
    (Compared /\ JudgedSame /\ IsOwner(Current) = IsOwner(Stored)) =>
        LET kept == IF NonEmptyCount(Current) > NonEmptyCount(Stored)
                    THEN Current ELSE Stored
            dropped == IF NonEmptyCount(Current) > NonEmptyCount(Stored)
                       THEN Stored ELSE Current
        IN  /\ d_pc # "raised"
            /\ InOutput(kept["ID"].i)
            /\ ~InOutput(dropped["ID"].i)

\* first and last name are both empty: absent, null or ""
Nameless(c) ==
    /\ ~Truthy(GetDefault(c, "First Name", PyStr(<<>>)))
    /\ ~Truthy(GetDefault(c, "Last Name", PyStr(<<>>)))

\* C9 as stated: a call of deduplicate_contacts that returns has retained
\* every nameless entry of an input with two of them, and neither
\* contact_matches_idi nor find_idi_match reports a match for a nameless
\* contact.
C9_NamelessNeverMatch ==
    /\ d_pc = "done" =>
        \A i, j \in DOMAIN d_input :
            (i # j /\ Nameless(InputContact(i)) /\ Nameless(InputContact(j)))
            => InOutput(i) /\ InOutput(j)
    /\ f_pc = "done" =>
        \A c \in ProbeContacts :
            Nameless(c) => c \notin f_matched /\ c \notin c_matched

(***************************************************************************)
(* Specification SpecRelations: pass 2 of the batch,                       *)
(* update_bidirectional_relations over the deduplicated network and the    *)
(* ID mapping that pass 1 built                                            *)
(***************************************************************************)
MaxNetwork == 3
MaxRelations == 2

\* the records of the repository's contacts table
RecordIds == {sRecA, sRecB, sRecC}

\* the lists of at most len elements of ids
RECURSIVE ListsUpTo(_, _)
ListsUpTo(ids, len) ==
    IF len = 0 THEN {<<>>}
    ELSE LET shorter == ListsUpTo(ids, len - 1)
         IN  shorter \cup {Append(q, x) : q \in shorter, x \in ids}

\* the Relations a contact of the artifact can carry: null, or a list of
\* different internal IDs of other contacts
RelationLists(id) ==
    {PyNone} \cup
    {PyList(q) : q \in {r \in ListsUpTo((1..MaxNetwork) \ {id}, MaxRelations) :
                            \A i, j \in DOMAIN r : i # j => r[i] # r[j]}}

\* the translation that keeps the record of every relation ID and puts the
\* record of a later ID first
RECURSIVE TranslateRelations_Reversed(_, _)
TranslateRelations_Reversed(relations, mapping) ==
    IF relations = <<>> THEN <<>>
    ELSE LET rest == TranslateRelations_Reversed(Tail(relations), mapping)
         IN  IF Head(relations) \in DOMAIN mapping
             THEN rest \o <<mapping[Head(relations)]>>
             ELSE rest

\* [relation_id -> record ID for relation_id in relations if relation_id in
\* contact_id_mapping], in the order of the list
RECURSIVE TranslateRelations(_, _)
TranslateRelations(relations, mapping) ==
    IF relations = <<>> THEN <<>>
    ELSE LET rest == TranslateRelations(Tail(relations), mapping)
         IN  IF Head(relations) \in DOMAIN mapping
             THEN <<mapping[Head(relations)]>> \o rest
             ELSE rest

\* idi_contact['ID'] in contact_id_mapping and idi_contact.get('Relations')
HasMappedRelations(idi_contact, mapping) ==
    /\ idi_contact["ID"].i \in DOMAIN mapping
    /\ Truthy(Get(idi_contact, "Relations"))

\* relation_record_ids of one round of the loop
relation_record_ids(idi_contact, mapping) ==
    IF HasMappedRelations(idi_contact, mapping)
    THEN TranslateRelations(idi_contact["Relations"].l, mapping)
    ELSE <<>>

RelationsInit ==
    /\ NameIdle
    /\ MergeIdle
    /\ DedupIdle
    /\ TraverseIdle
    /\ FindIdle
    /\ BatchIdle
    /\ PhoneIdle
    /\ ScoreIdle
    /\ \E n \in 1..MaxNetwork :
        /\ \E rel \in [1..n -> UNION {RelationLists(id) : id \in 1..MaxNetwork}] :
            /\ \A id \in 1..n : rel[id] \in RelationLists(id)
            /\ all_contacts_with_ids =
                [id \in 1..n |->
                    <<[f \in {"ID", "Relations"} |->
                        IF f = "ID" THEN PyInt(id) ELSE rel[id]],
                      IF id = 1 THEN 0 ELSE 1>>]
        /\ \E mapped \in SUBSET (1..n) :
            contact_id_mapping \in [mapped -> RecordIds]
    /\ r_i = 1
    /\ r_relations = [rec \in RecordIds |-> <<>>]
    /\ relations_updated = 0
    /\ r_failed = FALSE
    /\ r_pc = "loop"

\* the position after the round over entry r_i
AfterRound == IF r_i = Len(all_contacts_with_ids) THEN "done" ELSE "loop"

\* a round over a contact that is not in the mapping, has no Relations, or has
\* none that the mapping translates: no request
SkipContact ==
    /\ r_pc = "loop"
    /\ relation_record_ids(all_contacts_with_ids[r_i][1], contact_id_mapping) = <<>>
    /\ r_i' = r_i + 1
    /\ r_pc' = AfterRound
    /\ UNCHANGED <<all_contacts_with_ids, contact_id_mapping, r_relations,
                   relations_updated, r_failed>>
    /\ UNCHANGED notRelations

\* a round whose PATCH succeeds: the record's Relations field is replaced by
\* the translated list
PatchRelations ==
    /\ r_pc = "loop"
    /\ LET idi_contact == all_contacts_with_ids[r_i][1]
           ids == relation_record_ids(idi_contact, contact_id_mapping)
       IN  /\ ids # <<>>
           /\ r_relations' =
                [r_relations EXCEPT ![contact_id_mapping[idi_contact["ID"].i]] = ids]
    /\ relations_updated' = relations_updated + 1
    /\ r_i' = r_i + 1
    /\ r_pc' = AfterRound
    /\ UNCHANGED <<all_contacts_with_ids, contact_id_mapping, r_failed>>
    /\ UNCHANGED notRelations

\* a round whose PATCH raises: the error is printed and the loop goes on
PatchFails ==
    /\ r_pc = "loop"
    /\ relation_record_ids(all_contacts_with_ids[r_i][1], contact_id_mapping) # <<>>
    /\ r_failed' = TRUE
    /\ r_i' = r_i + 1
    /\ r_pc' = AfterRound
    /\ UNCHANGED <<all_contacts_with_ids, contact_id_mapping, r_relations,
                   relations_updated>>
    /\ UNCHANGED notRelations

RelationsNext == SkipContact \/ PatchRelations \/ PatchFails

SpecRelations == RelationsInit /\ [][RelationsNext]_vars

\* the contact with internal ID id lists internal ID other in its Relations
Lists(id, other) ==
    LET relations == Get(all_contacts_with_ids[id][1], "Relations")
    IN  IsList(relations) /\ other \in Range(relations.l)

\* the Relations persisted for the record of id contain the record of other
PersistedLink(id, other) ==
    contact_id_mapping[other] \in Range(r_relations[contact_id_mapping[id]])

\* C1 as stated: when update_bidirectional_relations has returned and every
\* request succeeded, for any two mapped contacts X and Y with Y in
\* X.Relations, the Relations persisted for Y's record contain X's record and
\* those persisted for X's record contain Y's.
C1_RelationsSymmetric ==
    (r_pc = "done" /\ ~r_failed) =>
        \A x, y \in DOMAIN contact_id_mapping :
            Lists(x, y) => PersistedLink(y, x) /\ PersistedLink(x, y)

\* the external identifiers of the relation IDs that are in the mapping, in
\* the order of the list
Translation(relations, mapping) ==
    LET mapped == SelectSeq(relations, LAMBDA id : id \in DOMAIN mapping)
    IN  [k \in DOMAIN mapped |-> mapping[mapped[k]]]

\* the list pass 2 has to send for the entry its loop is at: the translation
\* of the Relations of a mapped contact, nothing for a contact that is not in
\* the mapping or has no Relations
ListToSend ==
    LET idi_contact == all_contacts_with_ids[r_i][1]
        relations == Get(idi_contact, "Relations")
    IN  IF idi_contact["ID"].i \in DOMAIN contact_id_mapping /\ Truthy(relations)
        THEN Translation(relations.l, contact_id_mapping)
        ELSE <<>>

\* C24: in every round of pass 2 over a contact that is in the mapping and has
\* Relations, the list sent for the contact's record is the translation, in
\* order, of the relation IDs that are in the mapping (the request is accepted
\* and the record holds the list, or it is rejected and the record is left
\* alone); relation IDs that are not in the mapping are left out; and no
\* request is sent when the contact is not in the mapping, has no Relations,
\* or none of them is in the mapping.
C24_SentListIsTranslation ==
    [][r_pc = "loop" =>
        IF ListToSend # <<>>
        THEN \/ /\ r_relations' =
                    [r_relations EXCEPT
                        ![contact_id_mapping[all_contacts_with_ids[r_i][1]["ID"].i]] =
                            ListToSend]
                /\ relations_updated' = relations_updated + 1
                /\ r_failed' = r_failed
             \/ /\ r_relations' = r_relations
                /\ relations_updated' = relations_updated
                /\ r_failed'
        ELSE /\ r_relations' = r_relations
             /\ relations_updated' = relations_updated
             /\ r_failed' = r_failed]_vars

\* C24 witness: contact 1 lists 3 and 2, contact 2 is not in the mapping, and
\* pass 2 has set the Relations of contact 1's record to the record of
\* contact 3 alone.
C24_Witness ==
    /\ r_pc = "done"
    /\ Len(all_contacts_with_ids) = 3
    /\ all_contacts_with_ids[1][1]["Relations"] = PyList(<<3, 2>>)
    /\ all_contacts_with_ids[2][1]["Relations"] = PyList(<<1>>)
    /\ all_contacts_with_ids[3][1]["Relations"] = PyList(<<>>)
    /\ DOMAIN contact_id_mapping = {1, 3}
    /\ contact_id_mapping[1] = sRecA
    /\ contact_id_mapping[3] = sRecC
    /\ r_relations[sRecA] = <<sRecC>>
    /\ relations_updated = 1

(***************************************************************************)
(* Specification SpecTraverse: the network discovery of test_5_contacts,   *)
(* add_contact_and_relations called for every seed                         *)
(***************************************************************************)
MaxSeeds == 2

\* def add_contact_and_relations(contact, depth=0, max_depth=2)
max_depth == 2

\* a population of n contacts: the internal IDs are 1..n, relation IDs may
\* point outside it
Population(n, rel) ==
    [id \in 1..n |->
        [f \in {"ID", "Relations"} |-> IF f = "ID" THEN PyInt(id) ELSE rel[id]]]

\* the lists of at most MaxSeeds contacts of the population; a contact may be
\* named twice
SeedLists(population) ==
    {[k \in DOMAIN q |-> population[q[k]]] :
        q \in ListsUpTo(DOMAIN population, MaxSeeds) \ {<<>>}}

\* relations = contact.get('Relations', []); `if relations:` skips the loop
\* over a null or empty list
RelationsOf(contact) ==
    LET relations == GetDefault(contact, "Relations", PyList(<<>>))
    IN  IF Truthy(relations) THEN relations.l ELSE <<>>

\* the depth test of the early return, returning one level too early
TooDeep_AtBound(depth, bound) == depth >= bound

\* depth > max_depth
TooDeep(depth, bound) == depth > bound

\* the early return without the test of processed_ids
ReturnsAtOnce_DepthOnly(contact, depth) == TooDeep(depth, t_max_depth)

\* the loop over relations ending at a relation ID that is not in
\* contact_by_id
SkipAbsent_EndsLoop(frame) ==
    [frame EXCEPT !.k = Len(RelationsOf(frame.contact)) + 1]

\* `if relation_id in contact_by_id` is false: the loop goes on with the next
\* relation ID
SkipAbsent(frame) == [frame EXCEPT !.k = frame.k + 1]

\* if contact_id in processed_ids or depth > max_depth: return
ReturnsAtOnce(contact, depth) ==
    contact["ID"].i \in processed_ids \/ TooDeep(depth, t_max_depth)

\* a call of add_contact_and_relations(contact, depth) up to its loop: it
\* returns at once, or records the contact and starts on its relations;
\* frames is the stack of the callers
Enter(contact, depth, frames) ==
    IF ReturnsAtOnce(contact, depth)
    THEN /\ t_stack' = frames
         /\ UNCHANGED <<processed_ids, contacts_to_process>>
    ELSE /\ processed_ids' = processed_ids \cup {contact["ID"].i}
         /\ contacts_to_process' = Append(contacts_to_process, <<contact, depth>>)
         /\ t_stack' = <<[contact |-> contact, depth |-> depth, k |-> 1]>> \o frames

TraverseInit ==
    /\ NameIdle
    /\ MergeIdle
    /\ DedupIdle
    /\ RelationsIdle
    /\ FindIdle
    /\ BatchIdle
    /\ PhoneIdle
    /\ ScoreIdle
    /\ \E n \in 1..MaxNetwork :
        \E rel \in [1..n -> UNION {RelationLists(id) : id \in 1..MaxNetwork}] :
            /\ \A id \in 1..n : rel[id] \in RelationLists(id)
            /\ contact_by_id = Population(n, rel)
            /\ initial_contacts \in SeedLists(Population(n, rel))
    /\ t_max_depth \in 1..max_depth
    /\ processed_ids = {}
    /\ contacts_to_process = <<>>
    /\ t_stack = <<>>
    /\ t_next = 1
    /\ t_pc = "discover"

\* for contact in initial_contacts: add_contact_and_relations(contact)
StartSeed ==
    /\ t_pc = "discover"
    /\ t_stack = <<>>
    /\ t_next <= Len(initial_contacts)
    /\ Enter(initial_contacts[t_next], 0, <<>>)
    /\ t_next' = t_next + 1
    /\ UNCHANGED <<contact_by_id, initial_contacts, t_max_depth, t_pc>>
    /\ UNCHANGED notTraverse

\* one round of `for relation_id in relations` in the running call
FollowRelation ==
    /\ t_pc = "discover"
    /\ t_stack # <<>>
    /\ LET frame == Head(t_stack)
           relations == RelationsOf(frame.contact)
           frames == <<[frame EXCEPT !.k = frame.k + 1]>> \o Tail(t_stack)
       IN  /\ frame.k <= Len(relations)
           /\ IF relations[frame.k] \in DOMAIN contact_by_id
              THEN Enter(contact_by_id[relations[frame.k]], frame.depth + 1, frames)
              ELSE /\ t_stack' = <<SkipAbsent(frame)>> \o Tail(t_stack)
                   /\ UNCHANGED <<processed_ids, contacts_to_process>>
    /\ UNCHANGED <<contact_by_id, initial_contacts, t_max_depth, t_next, t_pc>>
    /\ UNCHANGED notTraverse

\* the running call has gone through its relations and returns
ReturnToCaller ==
    /\ t_pc = "discover"
    /\ t_stack # <<>>
    /\ Head(t_stack).k > Len(RelationsOf(Head(t_stack).contact))
    /\ t_stack' = Tail(t_stack)
    /\ UNCHANGED <<contact_by_id, initial_contacts, t_max_depth, processed_ids,
                   contacts_to_process, t_next, t_pc>>
    /\ UNCHANGED notTraverse

\* the loop over the seeds has ended
DiscoveryComplete ==
    /\ t_pc = "discover"
    /\ t_stack = <<>>
    /\ t_next > Len(initial_contacts)
    /\ t_pc' = "done"
    /\ UNCHANGED <<contact_by_id, initial_contacts, t_max_depth, processed_ids,
                   contacts_to_process, t_stack, t_next>>
    /\ UNCHANGED notTraverse

TraverseNext == StartSeed \/ FollowRelation \/ ReturnToCaller \/ DiscoveryComplete

SpecTraverse == TraverseInit /\ [][TraverseNext]_vars

\* the discovery runs on its own: a step that can be taken is taken
SpecTraverseLive == SpecTraverse /\ WF_vars(TraverseNext)

\* the internal IDs of the discovered network
NetworkIds == {contacts_to_process[k][1]["ID"].i : k \in DOMAIN contacts_to_process}

\* the entries of the discovered network whose contact lists id in Relations
ListedBy(id) ==
    {k \in DOMAIN contacts_to_process :
        id \in Range(RelationsOf(contacts_to_process[k][1]))}

SeedIds == {initial_contacts[k]["ID"].i : k \in DOMAIN initial_contacts}

\* C11: the traversal never descends past the maximum depth D: every pair of
\* the network has depth at most D; a contact of the population listed by a
\* contact recorded above depth D (so discovered at depth D at the latest) is
\* in the network; and a contact that is no seed and is listed only by
\* contacts recorded at depth D is not in it.
C11_DepthBounded ==
    /\ \A k \in DOMAIN contacts_to_process : contacts_to_process[k][2] <= t_max_depth
    /\ t_pc = "done" =>
        /\ \A k \in DOMAIN contacts_to_process :
            contacts_to_process[k][2] < t_max_depth =>
                \A id \in Range(RelationsOf(contacts_to_process[k][1])) :
                    id \in DOMAIN contact_by_id => id \in NetworkIds
        /\ \A id \in DOMAIN contact_by_id :
            ( /\ id \notin SeedIds
              /\ \A k \in ListedBy(id) : contacts_to_process[k][2] = t_max_depth )
            => id \notin NetworkIds

\* C11 witness: seed A, A lists B, B lists A and C, C lists B, D = 1: the
\* discovery has ended with exactly [(A, 0), (B, 1)]
C11_Witness ==
    /\ t_pc = "done"
    /\ t_max_depth = 1
    /\ DOMAIN contact_by_id = {1, 2, 3}
    /\ contact_by_id[1]["Relations"] = PyList(<<2>>)
    /\ contact_by_id[2]["Relations"] = PyList(<<1, 3>>)
    /\ contact_by_id[3]["Relations"] = PyList(<<2>>)
    /\ initial_contacts = <<contact_by_id[1]>>
    /\ contacts_to_process = << <<contact_by_id[1], 0>>, <<contact_by_id[2], 1>> >>

\* C12 as stated: when the discovery has ended, every seed is in the network
\* with recorded depth 0, also a seed that an earlier seed lists in Relations.
C12_SeedsAtDepthZero ==
    t_pc = "done" =>
        \A s \in DOMAIN initial_contacts :
            \E k \in DOMAIN contacts_to_process :
                contacts_to_process[k] = <<initial_contacts[s], 0>>

\* C21: no internal ID is in the discovered network twice, and the IDs of the
\* network are the visited IDs, whatever the seeds (the same contact named
\* twice included) and the relations (cycles included).
C21_NoContactTwice ==
    /\ \A i, j \in DOMAIN contacts_to_process :
        i # j => contacts_to_process[i][1]["ID"] # contacts_to_process[j][1]["ID"]
    /\ NetworkIds = processed_ids

\* C21 witness: the same seed named twice, in a mutual relation with a second
\* contact: the discovery has ended with each of them once.
C21_Witness ==
    /\ t_pc = "done"
    /\ DOMAIN contact_by_id = {1, 2}
    /\ contact_by_id[1]["Relations"] = PyList(<<2>>)
    /\ contact_by_id[2]["Relations"] = PyList(<<1>>)
    /\ initial_contacts = <<contact_by_id[1], contact_by_id[1]>>
    /\ contacts_to_process = << <<contact_by_id[1], 0>>, <<contact_by_id[2], 1>> >>

\* C22: the discovery ends on every population, and every call of
\* add_contact_and_relations either returns at once (the stack of running
\* calls does not grow) or adds an internal ID to processed_ids that was not
\* in it.
C22_TraversalTerminates ==
    /\ <>(t_pc = "done")
    /\ [][Len(t_stack') > Len(t_stack) =>
            /\ processed_ids \subseteq processed_ids'
            /\ Cardinality(processed_ids') = Cardinality(processed_ids) + 1]_vars

\* C22 witness: three contacts in a cycle 1 -> 2 -> 3 -> 1, and the discovery
\* has ended.
C22_Witness ==
    /\ t_pc = "done"
    /\ DOMAIN contact_by_id = {1, 2, 3}
    /\ contact_by_id[1]["Relations"] = PyList(<<2>>)
    /\ contact_by_id[2]["Relations"] = PyList(<<3>>)
    /\ contact_by_id[3]["Relations"] = PyList(<<1>>)
    /\ t_max_depth = 2
    /\ Len(contacts_to_process) = 3

\* the running call is at a relation ID that is not in contact_by_id
AtAbsentRelation ==
    /\ t_pc = "discover"
    /\ t_stack # <<>>
    /\ Head(t_stack).k <= Len(RelationsOf(Head(t_stack).contact))
    /\ RelationsOf(Head(t_stack).contact)[Head(t_stack).k] \notin DOMAIN contact_by_id

\* C23: a round of the loop over a relation ID that is not in contact_by_id
\* adds nothing to the network or to processed_ids and leaves the call at the
\* next relation ID; the network holds only contacts of the population; and
\* when the discovery has ended, every relation ID of the population listed by
\* a contact recorded above the maximum depth is in the network, also one that
\* follows an absent ID in the list.
C23_AbsentRelationSkipped ==
    /\ [][AtAbsentRelation =>
            /\ contacts_to_process' = contacts_to_process
            /\ processed_ids' = processed_ids
            /\ t_stack' = <<[Head(t_stack) EXCEPT !.k = Head(t_stack).k + 1]>>
                            \o Tail(t_stack)
            /\ t_pc' = "discover"]_vars
    /\ [](NetworkIds \subseteq DOMAIN contact_by_id)
    /\ [](t_pc = "done" =>
            \A k \in DOMAIN contacts_to_process :
                contacts_to_process[k][2] < t_max_depth =>
                    \A j \in DOMAIN RelationsOf(contacts_to_process[k][1]) :
                        RelationsOf(contacts_to_process[k][1])[j] \in DOMAIN contact_by_id
                            => RelationsOf(contacts_to_process[k][1])[j] \in NetworkIds)

\* C23 witness: the seed lists an ID that is not in the population and then
\* the second contact: the discovery has ended with the seed and the second
\* contact.
C23_Witness ==
    /\ t_pc = "done"
    /\ DOMAIN contact_by_id = {1, 2}
    /\ contact_by_id[1]["Relations"] = PyList(<<3, 2>>)
    /\ initial_contacts = <<contact_by_id[1]>>
    /\ contacts_to_process = << <<contact_by_id[1], 0>>, <<contact_by_id[2], 1>> >>

\* the internal IDs of the population at relation-path distance d or less
\* from a seed
RECURSIVE Within(_)
Within(d) ==
    IF d = 0 THEN SeedIds
    ELSE Within(d - 1)
            \cup {id \in DOMAIN contact_by_id :
                    \E near \in Within(d - 1) :
                        id \in Range(RelationsOf(contact_by_id[near]))}

\* C26 as stated: when the discovery has ended, every contact of the
\* population at relation-path distance of at most the maximum depth from a
\* seed is in the network.
C26_CompleteUpToDepth ==
    t_pc = "done" => Within(t_max_depth) \subseteq NetworkIds

(***************************************************************************)
(* Specification SpecFind: find_existing_contact for one candidate against *)
(* the records its name search selects                                     *)
(***************************************************************************)
MaxMatches == 3

SamePersonAgeThreshold == 5

\* the early return of find_existing_contact taken only when both names are
\* missing
NoFullName_BothMissing(first_name, last_name) == first_name = <<>> /\ last_name = <<>>

\* if not first_name or not last_name
NoFullName(first_name, last_name) == first_name = <<>> \/ last_name = <<>>

\* _is_same_person taking every record of the same name for the same person
_is_same_person_AnyAge(new_contact, existing_contact) == TRUE

\* _is_same_person(new_contact, existing_contact)
_is_same_person(new_contact, existing_contact) ==
    LET existing_fields == existing_contact.fields
        new_age == Get(new_contact, "Age")
        existing_age == Get(existing_fields, "Age")
    IN  ~( /\ Truthy(new_age) /\ Truthy(existing_age)
           /\ Abs(new_age.i - existing_age.i) > SamePersonAgeThreshold )

\* for contact in matches: if self._is_same_person(contact_data, contact):
\* return contact; return None after the loop
FirstSamePerson(contact_data, matches) ==
    LET same == {k \in DOMAIN matches : _is_same_person(contact_data, matches[k])}
    IN  IF same = {} THEN PyNone
        ELSE matches[CHOOSE k \in same : \A j \in same : k <= j]

\* the candidates: first name, last name and age absent, null or held
FindValues(f) ==
    IF f = "First Name" THEN {PyNone, PyStr(<<>>), PyStr(sBlank), PyStr(sAlName)}
    ELSE IF f = "Last Name" THEN {PyNone, PyStr(sBlank), PyStr(sBo)}
    ELSE {PyNone, PyInt(0), PyInt(40), PyInt(46)}

FindCandidates ==
    UNION {{d \in [D -> UNION {FindValues(f) : f \in D}] :
                \A f \in D : d[f] \in FindValues(f)} :
           D \in SUBSET {"First Name", "Last Name", "Age"}}

\* the field sets of the records of one name: the repository leaves an
\* empty Age out
MatchFieldSets ==
    {EmptyDict} \cup {[f \in {"Age"} |-> PyInt(age)] : age \in {0, 40, 45, 46}}

\* the k-th record the repository holds
RecordIdAt(k) == IF k = 1 THEN sRecA ELSE IF k = 2 THEN sRecB ELSE
                 IF k = 3 THEN sRecC ELSE sFcl

FindInit ==
    /\ NameIdle
    /\ MergeIdle
    /\ DedupIdle
    /\ RelationsIdle
    /\ TraverseIdle
    /\ BatchIdle
    /\ PhoneIdle
    /\ ScoreIdle
    /\ e_contact_data \in FindCandidates
    /\ \E n \in 0..MaxMatches :
        \E fields \in [1..n -> MatchFieldSets] :
            e_records = [k \in 1..n |-> [id |-> RecordIdAt(k), fields |-> fields[k]]]
    /\ e_matches = <<>>
    /\ e_searches = 0
    /\ e_result = PyNone
    /\ e_pc = "find"

\* find_existing_contact returns None before any request
FindWithoutSearch ==
    /\ e_pc = "find"
    /\ NoFullName(StrippedField(e_contact_data, "First Name"),
                  StrippedField(e_contact_data, "Last Name"))
    /\ e_result' = PyNone
    /\ e_pc' = "done"
    /\ UNCHANGED <<e_contact_data, e_records, e_matches, e_searches>>
    /\ UNCHANGED notFind

\* the name search answers and the first record of the same person, if any,
\* is returned
FindSearchAnswers ==
    /\ e_pc = "find"
    /\ ~NoFullName(StrippedField(e_contact_data, "First Name"),
                   StrippedField(e_contact_data, "Last Name"))
    /\ e_searches' = e_searches + 1
    /\ e_matches' = e_records
    /\ e_result' = FirstSamePerson(e_contact_data, e_records)
    /\ e_pc' = "done"
    /\ UNCHANGED <<e_contact_data, e_records>>
    /\ UNCHANGED notFind

\* the name search fails: _search_contacts_by_name prints the error and
\* returns []
FindSearchFails ==
    /\ e_pc = "find"
    /\ ~NoFullName(StrippedField(e_contact_data, "First Name"),
                   StrippedField(e_contact_data, "Last Name"))
    /\ e_searches' = e_searches + 1
    /\ e_matches' = <<>>
    /\ e_result' = FirstSamePerson(e_contact_data, <<>>)
    /\ e_pc' = "done"
    /\ UNCHANGED <<e_contact_data, e_records>>
    /\ UNCHANGED notFind

FindNext == FindWithoutSearch \/ FindSearchAnswers \/ FindSearchFails

SpecFind == FindInit /\ [][FindNext]_vars

\* a name that is absent, null, empty or only whitespace
EmptyName(contact, field) ==
    LET v == Get(contact, field)
    IN  IsNone(v) \/ (IsStr(v) /\ \A k \in DOMAIN v.s : v.s[k] \in SpaceChars)

\* C13: find_existing_contact issues no repository search when the
\* candidate's first name or last name is empty (absent, empty or only
\* whitespace); it returns none.
C13_NoSearchWithoutFullName ==
    ( /\ e_pc = "done"
      /\ EmptyName(e_contact_data, "First Name") \/ EmptyName(e_contact_data, "Last Name") )
    => e_searches = 0 /\ e_result = PyNone

\* C13 witness: a candidate with a first name and a last name of only
\* whitespace was answered without a search, though the repository holds a
\* record for the search to select
C13_Witness ==
    /\ e_pc = "done"
    /\ Get(e_contact_data, "First Name") = PyStr(sAlName)
    /\ Get(e_contact_data, "Last Name") = PyStr(sBlank)
    /\ e_records # <<>>
    /\ e_searches = 0
    /\ e_result = PyNone

\* both ages are present and non-zero and differ by more than 5
AgeIncompatible(contact, record) ==
    LET a == Get(contact, "Age")
        b == Get(record.fields, "Age")
    IN  /\ IsInt(a) /\ a.i # 0
        /\ IsInt(b) /\ b.i # 0
        /\ Abs(a.i - b.i) > 5

\* C14: find_existing_contact returns the first record, in the order the
\* search returned them, that is not age-incompatible with the candidate; it
\* returns none exactly when no record was returned or every returned record
\* is age-incompatible.
C14_FirstCompatibleRecord ==
    e_pc = "done" =>
        LET compatible == {k \in DOMAIN e_matches :
                              ~AgeIncompatible(e_contact_data, e_matches[k])}
        IN  /\ (e_result = PyNone) <=> (compatible = {})
            /\ compatible # {} =>
                \E k \in compatible :
                    /\ e_result = e_matches[k]
                    /\ \A j \in compatible : k <= j

\* C14 witness: the search returned three records, the first age-incompatible
\* with the candidate, the second without an age, and the second was returned
C14_Witness ==
    /\ e_pc = "done"
    /\ Len(e_matches) = 3
    /\ AgeIncompatible(e_contact_data, e_matches[1])
    /\ "Age" \notin DOMAIN e_matches[2].fields
    /\ e_result = e_matches[2]

(***************************************************************************)
(* Specification SpecBatch: test_5_contacts from the deduplication on:     *)
(* deduplicate_contacts, pass 1 (update_or_create_contact for every entry) *)
(* and pass 2 (update_bidirectional_relations)                             *)
(***************************************************************************)
MaxBatch == 2
MaxBatchRelations == 1
MaxSearches == 3

MaxRecords == 10

sCy == <<"C","y">>

\* the people of the batch: an owner's household of two names
BatchNames == {PlainNames, <<PyStr(sCy), PyStr(sBo)>>}

\* the Relations of a batch contact: null, or a list of internal IDs of the
\* other contacts
BatchRelationLists(id) ==
    {PyNone} \cup
    {PyList(q) : q \in ListsUpTo((1..MaxBatch) \ {id}, MaxBatchRelations)}

\* a contact of the artifact with its Relations; it has no Contact Addresses
BatchContact(id, names, relation, relations) ==
    [f \in {"ID", "First Name", "Last Name", "Suffix", "Age", "Relation to Owner",
            "Relations"} |->
        IF f = "Relations" THEN relations
        ELSE DedupContact(id, relation, <<names, PyNone, PyNone>>)[f]]

\* the contacts that can carry internal ID id: the people of the batch, and a
\* contact without a name
BatchContacts(id) ==
    {BatchContact(id, names, relation, relations) :
        names \in BatchNames, relation \in DedupRelations,
        relations \in BatchRelationLists(id)}
    \cup {BatchContact(id, <<PyNone, PyNone>>, PyStr(sSpouse), PyList(<<>>))}

\* the contacts table before the batch: empty, or holding the owner's record
\* without or with a foreclosure link
RepositoryStates ==
    {<<>>,
     <<[id |-> sRecA,
        fields |-> [f \in {"First Name", "Last Name"} |->
                        IF f = "First Name" THEN PyStr(sAlName) ELSE PyStr(sBo)]]>>,
     <<[id |-> sRecA,
        fields |-> [f \in {"First Name", "Last Name", "Foreclosures"} |->
                        IF f = "First Name" THEN PyStr(sAlName)
                        ELSE IF f = "Last Name" THEN PyStr(sBo)
                        ELSE PyList(<<sFcl>>)]]>>}

\* the response of the repository to the filter formula
\* AND(UPPER({First Name})=UPPER(first_name), UPPER({Last Name})=UPPER(last_name)):
\* at most maxRecords records, each with the requested fields
SearchByName(records, first_name, last_name) ==
    LET selected == SelectSeq(records, LAMBDA r :
            /\ Upper(OrEmpty(Get(r.fields, "First Name")).s) = Upper(first_name)
            /\ Upper(OrEmpty(Get(r.fields, "Last Name")).s) = Upper(last_name))
        listed == IF Len(selected) > MaxRecords
                  THEN SubSeq(selected, 1, MaxRecords) ELSE selected
    IN  [k \in DOMAIN listed |-> SearchProjection(listed[k])]

\* the outcome of the k-th name search of one call: it answers or it fails
Answer(answers, k) == IF k \in DOMAIN answers THEN answers[k] ELSE TRUE

\* the request _search_contacts_by_name issues for contact_data, if
\* find_existing_contact gets that far
SearchRequests(contact_data, caller, answered) ==
    IF NoFullName(StrippedField(contact_data, "First Name"),
                  StrippedField(contact_data, "Last Name"))
    THEN <<>>
    ELSE <<[method |-> "GET", contact |-> caller, record |-> <<>>,
            fields |-> EmptyDict, ok |-> answered]>>

\* find_existing_contact(contact_data) against the records of the table; a
\* search that fails returns []
find_existing_contact(contact_data, records, answered) ==
    LET first_name == StrippedField(contact_data, "First Name")
        last_name == StrippedField(contact_data, "Last Name")
    IN  IF NoFullName(first_name, last_name) THEN PyNone
        ELSE FirstSamePerson(contact_data,
                IF answered THEN SearchByName(records, first_name, last_name)
                ELSE <<>>)

\* existing_fields.get("Foreclosures", []) of what find_existing_contact
\* returned, [] when it returned None
ForeclosuresOf(existing_contact) ==
    IF IsNone(existing_contact) THEN PyList(<<>>)
    ELSE GetDefault(existing_contact.fields, "Foreclosures", PyList(<<>>))

\* an AttributeError or TypeError leaves find_owner_foreclosures
OwnerRaised(requests) == [raised |-> TRUE, foreclosures |-> <<>>, requests |-> requests]

\* the loop of find_owner_foreclosures over the Relations of a relative; used
\* is the number of searches the call of update_or_create_contact has issued
RECURSIVE OwnerLoop(_, _, _, _, _, _)
OwnerLoop(relations, all_idi_contacts, records, answers, used, caller) ==
    IF relations = <<>>
    THEN [raised |-> FALSE, foreclosures |-> <<>>, requests |-> <<>>]
    ELSE LET found == {k \in DOMAIN all_idi_contacts :
                            Get(all_idi_contacts[k], "ID") = PyInt(Head(relations))}
         IN  IF found = {}
             THEN OwnerLoop(Tail(relations), all_idi_contacts, records, answers,
                            used, caller)
             ELSE
             LET related_contact ==
                    all_idi_contacts[CHOOSE k \in found : \A j \in found : k <= j]
                 related_relation ==
                    GetDefault(related_contact, "Relation to Owner", PyStr(<<>>))
             IN  IF ~IsStr(related_relation) THEN OwnerRaised(<<>>)
                 ELSE IF Lower(Strip(related_relation.s)) # sowner
                 THEN OwnerLoop(Tail(relations), all_idi_contacts, records, answers,
                                used, caller)
                 ELSE
                 LET answered == Answer(answers, used + 1)
                     search == SearchRequests(related_contact, caller, answered)
                     foreclosures ==
                        ForeclosuresOf(find_existing_contact(related_contact, records,
                                                             answered))
                     rest == OwnerLoop(Tail(relations), all_idi_contacts, records,
                                       answers, used + Len(search), caller)
                 IN  IF Truthy(foreclosures)
                     THEN [raised |-> FALSE, foreclosures |-> foreclosures.l,
                           requests |-> search]
                     ELSE [raised |-> rest.raised, foreclosures |-> rest.foreclosures,
                           requests |-> search \o rest.requests]

\* find_owner_foreclosures(idi_contact, all_idi_contacts): whether it raised,
\* the list it returned, and the searches it issued
find_owner_foreclosures(idi_contact, all_idi_contacts, records, answers, used) ==
    LET relation_to_owner == GetDefault(idi_contact, "Relation to Owner", PyStr(<<>>))
        caller == idi_contact["ID"].i
    IN  IF ~IsStr(relation_to_owner) THEN OwnerRaised(<<>>)
        ELSE IF Lower(Strip(relation_to_owner.s)) = sowner
        THEN LET answered == Answer(answers, used + 1)
             IN  [raised |-> FALSE,
                  foreclosures |->
                    ForeclosuresOf(find_existing_contact(idi_contact, records,
                                                         answered)).l,
                  requests |-> SearchRequests(idi_contact, caller, answered)]
        ELSE LET relations == GetDefault(idi_contact, "Relations", PyList(<<>>))
             IN  IF ~IsList(relations) THEN OwnerRaised(<<>>)
                 ELSE OwnerLoop(relations.l, all_idi_contacts, records, answers,
                                used, caller)

\* the fields update_or_create_contact formats when the contact holds them
FormattedFields == {"First Name", "Last Name", "Middle Name", "Suffix", "Age",
                    "Phone", "Email", "Relation to Owner", "Company Name",
                    "Maiden Name"}

\* contact_fields before the foreclosure and relation links are added
contact_fields(idi_contact) ==
    [f \in {"IDI", "Traced", "Entity Type"}
            \cup {f \in FormattedFields : Truthy(Get(idi_contact, f))}
            \cup {f \in {"Deceased", "Bankruptcy"} : ~IsNone(Get(idi_contact, f))} |->
        IF f \in {"IDI", "Traced"} THEN PyBool(TRUE)
        ELSE IF f = "Entity Type" THEN PyStr(sPerson)
        ELSE IF f \in {"Age", "Deceased", "Bankruptcy"} THEN idi_contact[f]
        ELSE IF f = "Phone" THEN format_phone_number(idi_contact[f])
        ELSE clean_and_format_text(idi_contact[f], _get_field_type(f))]

\* the contact_id_mapping pass 1 passes: None, which `contact_id_mapping and
\* ...` treats as the empty dict
NoMapping == EmptyDict

\* pass 1 handing update_or_create_contact the mapping it has built so far
Pass1Mapping_Current(mapping) == mapping

\* the contact_id_mapping argument of the call in pass 1
Pass1Mapping(mapping) == NoMapping

\* if contact_id_mapping and idi_contact.get("Relations"): the translated
\* list is set when it is not empty
WithRelations(fields, idi_contact, mapping) ==
    IF DOMAIN mapping # {} /\ Truthy(Get(idi_contact, "Relations"))
    THEN LET ids == TranslateRelations(idi_contact["Relations"].l, mapping)
         IN  IF ids # <<>> THEN DictSet(fields, "Relations", PyList(ids)) ELSE fields
    ELSE fields

\* the table after a PATCH of the record id with fields
Patched(records, id, fields) ==
    [k \in DOMAIN records |->
        IF records[k].id = id
        THEN [id |-> id,
              fields |-> [f \in DOMAIN records[k].fields \cup DOMAIN fields |->
                            IF f \in DOMAIN fields THEN fields[f]
                            ELSE records[k].fields[f]]]
        ELSE records[k]]

\* what one call of update_or_create_contact does
Returned(result, requests, records) ==
    [raised |-> FALSE, result |-> result, requests |-> requests, records |-> records]

\* update_or_create_contact(idi_contact, contact_id_mapping, all_idi_contacts)
\* against the records of the table: answers gives the outcome of each name
\* search, accepted that of the POST or PATCH
update_or_create_contact(idi_contact, mapping, all_idi_contacts, records, answers, accepted) ==
    LET first_name == GetDefault(idi_contact, "First Name", PyStr(<<>>))
        last_name == GetDefault(idi_contact, "Last Name", PyStr(<<>>))
        caller == idi_contact["ID"].i
    IN  IF ~Truthy(first_name) /\ ~Truthy(last_name)
        THEN Returned(PyNone, <<>>, records)
        ELSE
        LET existing_contact == find_existing_contact(idi_contact, records,
                                                      Answer(answers, 1))
            search == SearchRequests(idi_contact, caller, Answer(answers, 1))
            owner == IF all_idi_contacts # <<>>
                     THEN find_owner_foreclosures(idi_contact, all_idi_contacts,
                                                  records, answers, Len(search))
                     ELSE [raised |-> FALSE, foreclosures |-> <<>>, requests |-> <<>>]
            with_foreclosures ==
                IF owner.foreclosures # <<>>
                THEN DictSet(contact_fields(idi_contact), "Foreclosures",
                             PyList(owner.foreclosures))
                ELSE contact_fields(idi_contact)
            new_fields == WithRelations(with_foreclosures, idi_contact, mapping)
            before_try == search \o owner.requests
        IN  IF owner.raised
            THEN [raised |-> TRUE, result |-> PyNone, requests |-> before_try,
                  records |-> records]
            ELSE IF ~IsNone(existing_contact)
            THEN LET merged == WithRelations(
                                _merge_contact_data(idi_contact, existing_contact),
                                idi_contact, mapping)
                     again == find_owner_foreclosures(idi_contact, all_idi_contacts,
                                                      records, answers, Len(before_try))
                     merged_fields ==
                        IF /\ again.foreclosures # <<>>
                           /\ Len(ForeclosuresOf(existing_contact).l) = 0
                        THEN DictSet(merged, "Foreclosures", PyList(again.foreclosures))
                        ELSE merged
                     patch == [method |-> "PATCH", contact |-> caller,
                               record |-> existing_contact.id,
                               fields |-> merged_fields, ok |-> accepted]
                     requests == before_try \o again.requests
                 IN  IF again.raised THEN Returned(PyNone, requests, records)
                     ELSE IF accepted
                     THEN Returned(PyStr(existing_contact.id), Append(requests, patch),
                                   Patched(records, existing_contact.id, merged_fields))
                     ELSE Returned(PyNone, Append(requests, patch), records)
            ELSE LET post == [method |-> "POST", contact |-> caller, record |-> <<>>,
                              fields |-> new_fields, ok |-> accepted]
                     id == RecordIdAt(Len(records) + 1)
                 IN  IF accepted
                     THEN Returned(PyStr(id), Append(before_try, post),
                                   Append(records, [id |-> id, fields |-> new_fields]))
                     ELSE Returned(PyNone, Append(before_try, post), records)

BatchInit ==
    /\ NameIdle
    /\ MergeIdle
    /\ TraverseIdle
    /\ FindIdle
    /\ PhoneIdle
    /\ ScoreIdle
    /\ \E n \in 1..MaxBatch :
        \E contacts \in [1..n -> UNION {BatchContacts(id) : id \in 1..n}] :
            /\ \A id \in 1..n : contacts[id] \in BatchContacts(id)
            /\ d_input = [k \in 1..n |-> <<contacts[k], IF k = 1 THEN 0 ELSE 1>>]
    /\ d_i = 1
    /\ d_seen = EmptyDict
    /\ d_dedup = <<>>
    /\ d_trace = <<>>
    /\ d_pc = "loop"
    /\ f_idi_name_set = {}
    /\ c_idi_lookup = EmptyDict
    /\ f_matched = {}
    /\ c_matched = {}
    /\ f_pc = "idle"
    /\ RelationsIdle
    /\ b_records \in RepositoryStates
    /\ b_i = 1
    /\ b_requests = <<>>
    /\ b_returned = <<>>
    /\ b_pc = "pass1"

\* all_contacts = [c for c, _ in contacts_to_process]
all_contacts == [k \in DOMAIN d_dedup |-> d_dedup[k][1]]

\* one round of the loop of pass 1: update_or_create_contact for the entry,
\* and the mapping entry when it returned a record ID; an exception that
\* leaves the call ends the batch
Pass1Round ==
    /\ d_pc = "done"
    /\ b_pc = "pass1"
    /\ b_i <= Len(d_dedup)
    /\ \E answers \in [1..MaxSearches -> BOOLEAN], accepted \in BOOLEAN :
        LET contact == d_dedup[b_i][1]
        IN \E call \in {update_or_create_contact(contact, Pass1Mapping(contact_id_mapping),
                                             all_contacts, b_records, answers, accepted)} :
            /\ b_requests' = b_requests \o call.requests
            /\ b_records' = call.records
            /\ IF call.raised
               THEN /\ b_pc' = "raised"
                    /\ UNCHANGED <<b_i, b_returned, contact_id_mapping>>
               ELSE /\ b_pc' = b_pc
                    /\ b_i' = b_i + 1
                    /\ b_returned' = Append(b_returned, call.result)
                    /\ contact_id_mapping' =
                        IF Truthy(call.result)
                        THEN DictSet(contact_id_mapping, contact["ID"].i, call.result.s)
                        ELSE contact_id_mapping
    /\ UNCHANGED <<all_contacts_with_ids, r_i, r_relations, relations_updated,
                   r_failed, r_pc>>
    /\ UNCHANGED dedupVars
    /\ UNCHANGED notBatch

\* the loop of pass 1 is over: update_bidirectional_relations is called with
\* the deduplicated network and the mapping
StartPass2 ==
    /\ d_pc = "done"
    /\ b_pc = "pass1"
    /\ b_i > Len(d_dedup)
    /\ b_pc' = "pass2"
    /\ all_contacts_with_ids' = d_dedup
    /\ r_i' = 1
    /\ r_relations' = [rec \in RecordIds \cup {b_records[k].id : k \in DOMAIN b_records}
                        |-> <<>>]
    /\ relations_updated' = 0
    /\ r_failed' = FALSE
    /\ r_pc' = "loop"
    /\ UNCHANGED <<b_records, b_i, b_requests, b_returned, contact_id_mapping>>
    /\ UNCHANGED dedupVars
    /\ UNCHANGED notBatch

BatchNext ==
    DedupStep \/ Pass1Round \/ StartPass2 \/ SkipContact \/ PatchRelations \/ PatchFails

SpecBatch == BatchInit /\ [][BatchNext]_vars

\* the requests of the log that set the field
Sets(field) == {q \in DOMAIN b_requests : field \in DOMAIN b_requests[q].fields}

\* update_or_create_contact has been attempted for every entry of the network
AllAttempted == d_pc = "done" /\ Len(b_returned) = Len(d_dedup)

\* pass 2 has issued a request
Pass2Requested ==
    \/ relations_updated > 0
    \/ r_failed
    \/ \E rec \in DOMAIN r_relations : r_relations[rec] # <<>>

\* C15: no request of pass 1 sets Relations; update_bidirectional_relations is
\* running or has run only when update_or_create_contact has been attempted
\* for every entry of the network, and so has any request that sets Relations.
C15_TwoPassDiscipline ==
    /\ b_pc = "pass1" => Sets("Relations") = {}
    /\ b_pc = "pass2" => Sets("Relations") = {}
    /\ r_pc # "idle" => b_pc = "pass2" /\ AllAttempted
    /\ Pass2Requested => b_pc = "pass2" /\ AllAttempted

\* C15 witness: the second entry lists the first, which pass 1 had mapped
\* before the call for the second; both are mapped and pass 2 has set the
\* Relations of both records.
C15_Witness ==
    /\ r_pc = "done"
    /\ Len(d_dedup) = 2
    /\ DOMAIN contact_id_mapping = {1, 2}
    /\ d_dedup[1][1]["ID"] = PyInt(1)
    /\ d_dedup[2][1]["Relations"] = PyList(<<1>>)
    /\ relations_updated = 2
    /\ \E q \in DOMAIN b_requests :
        b_requests[q].method = "POST" /\ b_requests[q].contact = 2 /\ b_requests[q].ok

\* the batch has come to its end
BatchOver == b_pc = "raised" \/ r_pc = "done"

\* the repository rejected the POST or PATCH of the k-th entry in pass 1
Rejected(k) ==
    \E q \in DOMAIN b_requests :
        /\ b_requests[q].contact = d_dedup[k][1]["ID"].i
        /\ b_requests[q].method \in {"POST", "PATCH"}
        /\ ~b_requests[q].ok

\* C16 as stated: when the repository rejects the create or update of an entry
\* in pass 1, update_or_create_contact returns None for it, the entry gets no
\* mapping entry, and at the end of the batch the call has returned for every
\* entry; when a relation update of pass 2 fails, its loop still goes through
\* every entry.
C16_PartialFailureTolerant ==
    /\ \A k \in DOMAIN d_dedup :
        (d_pc = "done" /\ Rejected(k)) =>
            /\ b_returned[k] = PyNone
            /\ d_dedup[k][1]["ID"].i \notin DOMAIN contact_id_mapping
            /\ BatchOver => Len(b_returned) = Len(d_dedup)
    /\ (r_failed /\ b_pc = "pass2" /\ BatchOver) => r_i = Len(all_contacts_with_ids) + 1

\* a name search issued by the call for the contact with internal ID id failed
SearchFailed(id) ==
    \E q \in DOMAIN b_requests :
        /\ b_requests[q].contact = id
        /\ b_requests[q].method = "GET"
        /\ ~b_requests[q].ok

\* C17 as stated: when a name search of the call for a contact fails, the call
\* issues no create and no update and the contact gets no mapping entry.
C17_FailedSearchNotProcessed ==
    \A k \in DOMAIN d_dedup :
        (d_pc = "done" /\ SearchFailed(d_dedup[k][1]["ID"].i)) =>
            /\ ~\E q \in DOMAIN b_requests :
                    /\ b_requests[q].contact = d_dedup[k][1]["ID"].i
                    /\ b_requests[q].method \in {"POST", "PATCH"}
            /\ d_dedup[k][1]["ID"].i \notin DOMAIN contact_id_mapping

\* C18 as stated: no exception leaves deduplicate_contacts, and none leaves
\* update_or_create_contact, whatever the contacts hold (a Relation to Owner
\* that is present but null included).
C18_NoExceptionEscapes == d_pc # "raised" /\ b_pc # "raised"

(***************************************************************************)
(* Specification SpecHousehold: the batch of SpecBatch over a household of *)
(* two contacts whose suffixes and ages vary, against a contacts table     *)
(* that holds records of the household                                     *)
(***************************************************************************)
sFclB == <<"r","e","c","G">>

\* suffix and age of a contact of the household that has one of them: Jr or
\* Sr, or an age of 40, 43 or 46
HouseholdProfiles ==
    {<<PyStr(sJr), PyNone>>, <<PyStr(sSr), PyNone>>,
     <<PyNone, PyInt(40)>>, <<PyNone, PyInt(43)>>, <<PyNone, PyInt(46)>>}

\* a contact of the household with its Relations
HouseholdContact(id, names, relation, profile, relations) ==
    [f \in {"ID", "First Name", "Last Name", "Suffix", "Age", "Relation to Owner",
            "Relations"} |->
        IF f = "Relations" THEN relations
        ELSE DedupContact(id, relation, <<names, profile[1], profile[2]>>)[f]]

\* the contacts that can carry internal ID id. Without suffix and age: the
\* owner or a spouse of either name who lists the other contact, and a spouse
\* who lists nobody. With a suffix or an age: a spouse of the first name who
\* lists the other contact
HouseholdContacts(id) ==
    LET others == PyList(<<CHOOSE other \in (1..MaxBatch) \ {id} : TRUE>>)
    IN  {HouseholdContact(id, names, relation, <<PyNone, PyNone>>, others) :
            names \in BatchNames, relation \in {PyStr(sOwner), PyStr(sSpouse)}}
        \cup {HouseholdContact(id, PlainNames, PyStr(sSpouse), <<PyNone, PyNone>>,
                               PyList(<<>>))}
        \cup {HouseholdContact(id, PlainNames, PyStr(sSpouse), profile, others) :
                profile \in HouseholdProfiles}

\* a record of the contacts table that holds a name and, when foreclosures is
\* not empty, a foreclosure link
HouseholdRecord(id, names, foreclosures) ==
    [id |-> id,
     fields |-> [f \in {"First Name", "Last Name"}
                        \cup (IF foreclosures = <<>> THEN {} ELSE {"Foreclosures"}) |->
                    IF f = "First Name" THEN names[1]
                    ELSE IF f = "Last Name" THEN names[2]
                    ELSE PyList(foreclosures)]]

\* the contacts table before the batch: empty, or the record of the first
\* name of the batch with or without a foreclosure link, alone or followed by
\* the record of the second name with or without a foreclosure link of its own
HouseholdRepositoryStates ==
    {<<>>,
     <<HouseholdRecord(sRecA, PlainNames, <<sFcl>>)>>,
     <<HouseholdRecord(sRecA, PlainNames, <<sFcl>>),
       HouseholdRecord(sRecB, <<PyStr(sCy), PyStr(sBo)>>, <<>>)>>,
     <<HouseholdRecord(sRecA, PlainNames, <<sFcl>>),
       HouseholdRecord(sRecB, <<PyStr(sCy), PyStr(sBo)>>, <<sFclB>>)>>,
     <<HouseholdRecord(sRecA, PlainNames, <<>>),
       HouseholdRecord(sRecB, <<PyStr(sCy), PyStr(sBo)>>, <<>>)>>}

HouseholdInit ==
    /\ NameIdle
    /\ MergeIdle
    /\ TraverseIdle
    /\ FindIdle
    /\ PhoneIdle
    /\ ScoreIdle
    /\ \E contacts \in [1..MaxBatch -> UNION {HouseholdContacts(id) : id \in 1..MaxBatch}] :
            /\ \A id \in 1..MaxBatch : contacts[id] \in HouseholdContacts(id)
            /\ d_input = [k \in 1..MaxBatch |-> <<contacts[k], IF k = 1 THEN 0 ELSE 1>>]
    /\ d_i = 1
    /\ d_seen = EmptyDict
    /\ d_dedup = <<>>
    /\ d_trace = <<>>
    /\ d_pc = "loop"
    /\ f_idi_name_set = {}
    /\ c_idi_lookup = EmptyDict
    /\ f_matched = {}
    /\ c_matched = {}
    /\ f_pc = "idle"
    /\ RelationsIdle
    /\ b_records \in HouseholdRepositoryStates
    /\ b_i = 1
    /\ b_requests = <<>>
    /\ b_returned = <<>>
    /\ b_pc = "pass1"

SpecHousehold == HouseholdInit /\ [][BatchNext]_vars

\* two different entries of the deduplicated network with the same name key
RetainedTwins(j, k) ==
    /\ d_pc = "done"
    /\ j \in DOMAIN d_dedup /\ k \in DOMAIN d_dedup /\ j # k
    /\ SameKey(d_dedup[j][1], d_dedup[k][1])

\* pass 1 has mapped the internal IDs of both entries to one record
SharedRecord(j, k) ==
    LET x == d_dedup[j][1]["ID"].i
        y == d_dedup[k][1]["ID"].i
    IN  /\ x \in DOMAIN contact_id_mapping
        /\ y \in DOMAIN contact_id_mapping
        /\ contact_id_mapping[x] = contact_id_mapping[y]

\* C27 as stated: when deduplicate_contacts retains two entries with the same
\* name key (their suffixes differ, or their ages differ by more than 2),
\* pass 1 never maps the internal IDs of both to the same record.
C27_TwinsGetDifferentRecords ==
    \A j, k \in DOMAIN d_dedup : RetainedTwins(j, k) => ~SharedRecord(j, k)

\* C28 as stated: no self-relation is persisted: the relation list pass 2 has
\* set for a record never holds the id of that record.
C28_NoSelfRelation ==
    \A rec \in DOMAIN r_relations : rec \notin Range(r_relations[rec])

\* the record of the table with the id
RecordWithId(id) == b_records[CHOOSE k \in DOMAIN b_records : b_records[k].id = id]

\* the foreclosure links a record holds
HeldForeclosures(record) ==
    IF "Foreclosures" \in DOMAIN record.fields THEN record.fields["Foreclosures"].l
    ELSE <<>>

\* a contact the contact lists in its Relations is the owner, and a record of
\* the owner's name holds the foreclosure links
OwnerAmongRelationsHolds(contact, foreclosures) ==
    \E k \in DOMAIN d_dedup :
        LET related == d_dedup[k][1]
        IN  /\ IsList(contact["Relations"])
            /\ related["ID"].i \in Range(contact["Relations"].l)
            /\ IsOwner(related)
            /\ \E j \in DOMAIN b_records :
                    /\ Upper(b_records[j].fields["First Name"].s)
                            = Upper(Strip(related["First Name"].s))
                    /\ Upper(b_records[j].fields["Last Name"].s)
                            = Upper(Strip(related["Last Name"].s))
                    /\ HeldForeclosures(b_records[j]) = foreclosures

\* C30: an update update_or_create_contact sends for a matched record that
\* holds foreclosure links has no Foreclosures field; an update has the field
\* only when the matched record holds none, and then the field holds the
\* non-empty links of the record of the owner the contact lists among its
\* Relations.
C30_ForeclosuresOnlyWhenNone ==
    [][\A q \in (Len(b_requests) + 1)..Len(b_requests') :
            b_requests'[q].method = "PATCH" =>
                LET update == b_requests'[q].fields
                    existing == RecordWithId(b_requests'[q].record)
                IN  /\ HeldForeclosures(existing) # <<>>
                        => "Foreclosures" \notin DOMAIN update
                    /\ "Foreclosures" \in DOMAIN update
                        => /\ HeldForeclosures(existing) = <<>>
                           /\ update["Foreclosures"].l # <<>>
                           /\ OwnerAmongRelationsHolds(d_dedup[b_i][1],
                                                       update["Foreclosures"].l)]_vars

\* C30 witness: the owner's record holds a foreclosure link and the spouse's
\* record holds none; the update of the owner's record has no Foreclosures
\* field and the update of the spouse's record has the owner's link.
C30_Witness ==
    /\ b_pc = "pass2"
    /\ Len(d_dedup) = 2
    /\ IsOwner(d_dedup[1][1])
    /\ d_dedup[2][1]["Relations"] = PyList(<<1>>)
    /\ \E q \in DOMAIN b_requests :
        /\ b_requests[q].method = "PATCH" /\ b_requests[q].ok
        /\ b_requests[q].contact = 1 /\ b_requests[q].record = sRecA
        /\ "Foreclosures" \notin DOMAIN b_requests[q].fields
    /\ \E q \in DOMAIN b_requests :
        /\ b_requests[q].method = "PATCH" /\ b_requests[q].ok
        /\ b_requests[q].contact = 2 /\ b_requests[q].record = sRecB
        /\ Get(b_requests[q].fields, "Foreclosures") = PyList(<<sFcl>>)
    /\ HeldForeclosures(b_records[1]) = <<sFcl>>
    /\ HeldForeclosures(b_records[2]) = <<sFcl>>

(***************************************************************************)
(* Specification SpecPhone: format_phone_number over phone values of 0 to  *)
(* MaxDigits digits, and the merge of the value into a record without a    *)
(* phone                                                                   *)
(***************************************************************************)
MaxDigits == 12

sEleven == <<"5","5","1","2","3","4","5","6","7","8","9">>
sFormattedTen == <<"(","5","5","5",")"," ","1","2","3","-","4","5","6","7">>

\* n digits, the first of them lead
PhoneDigits(n, lead) ==
    IF n = 0 THEN <<>>
    ELSE <<lead>> \o [k \in 1..(n - 1) |-> sEleven[((k - 1) % Len(sEleven)) + 1]]

\* the ways the artifact writes a number
PhoneStyles == {"plain", "dashed", "plus", "padded", "extension"}

Decorate(digits, style) ==
    IF style = "dashed" /\ Len(digits) > 6
        THEN SubSeq(digits, 1, 3) \o <<"-">> \o SubSeq(digits, 4, 6) \o <<"-">>
                \o SubSeq(digits, 7, Len(digits))
    ELSE IF style = "plus" THEN <<"+">> \o digits
    ELSE IF style = "padded" THEN <<" ">> \o digits \o <<" ">>
    ELSE IF style = "extension" THEN digits \o <<" ", "x">>
    ELSE digits

\* the Phone values of the artifact: null, empty, or a str
PhoneInputs ==
    {PyNone}
    \cup {PyStr(Decorate(PhoneDigits(n, lead), style)) :
            n \in 0..MaxDigits, lead \in {"1", "5"}, style \in PhoneStyles}

\* the records a phone is merged into: no Phone, or an empty one
PhonelessRecords ==
    {[id |-> sRecA, fields |-> EmptyDict],
     [id |-> sRecA, fields |-> [f \in {"Phone"} |-> PyStr(<<>>)]]}

PhoneInit ==
    /\ NameIdle
    /\ MergeIdle
    /\ DedupIdle
    /\ RelationsIdle
    /\ TraverseIdle
    /\ FindIdle
    /\ BatchIdle
    /\ ScoreIdle
    /\ p_phone \in PhoneInputs
    /\ p_formatted = PyNone
    /\ p_merged = EmptyDict
    /\ p_pc = "format"

\* self.format_phone_number(phone)
FormatPhone ==
    /\ p_pc = "format"
    /\ p_formatted' = format_phone_number(p_phone)
    /\ p_pc' = "merge"
    /\ UNCHANGED <<p_phone, p_merged>>
    /\ UNCHANGED notPhone

\* _merge_contact_data of a contact holding the phone into a record that has
\* none
MergePhone ==
    /\ p_pc = "merge"
    /\ \E existing_contact \in PhonelessRecords :
        p_merged' = _merge_contact_data([f \in {"Phone"} |-> p_phone], existing_contact)
    /\ p_pc' = "done"
    /\ UNCHANGED <<p_phone, p_formatted>>
    /\ UNCHANGED notPhone

PhoneNext == FormatPhone \/ MergePhone

SpecPhone == PhoneInit /\ [][PhoneNext]_vars

\* "(AAA) BBB-CCCC" over ten digits
PhonePattern(d) ==
    <<"(", d[1], d[2], d[3], ")", " ", d[4], d[5], d[6], "-", d[7], d[8], d[9], d[10]>>

\* the digits of a phone value, in order
PhoneDigitsOf(phone) ==
    IF IsStr(phone) THEN SelectSeq(phone.s, LAMBDA c : c \in DigitChars) ELSE <<>>

\* C20: format_phone_number gives "(AAA) BBB-CCCC" over the digits of a value
\* with exactly 10 digits, the same over the trailing 10 digits of a value
\* with exactly 11 digits and a leading 1, and returns any other value
\* unchanged; merging Phone "5551234567" into a record without a phone gives
\* "(555) 123-4567".
C20_PhoneFormatting ==
    /\ p_pc \in {"merge", "done"} =>
        LET digits == PhoneDigitsOf(p_phone)
        IN  IF Len(digits) = 10 THEN p_formatted = PyStr(PhonePattern(digits))
            ELSE IF Len(digits) = 11 /\ digits[1] = "1"
                THEN p_formatted = PyStr(PhonePattern(Tail(digits)))
            ELSE p_formatted = p_phone
    /\ (p_pc = "done" /\ p_phone = PyStr(sTen)) =>
        Get(p_merged, "Phone") = PyStr(sFormattedTen)

\* C20 witness: "5551234567" has been formatted and merged into a record
\* without a phone.
C20_Witness ==
    /\ p_pc = "done"
    /\ p_phone = PyStr(sTen)
    /\ p_formatted = PyStr(sFormattedTen)
    /\ Get(p_merged, "Phone") = PyStr(sFormattedTen)

(***************************************************************************)
(* Specification SpecScore: ContactDataComparator.calculate_score for one  *)
(* contact of one of the two populations the comparator holds              *)
(***************************************************************************)
MaxPopulation == 3
MaxScoreRelations == 2

\* the loop over relations collecting the relation IDs of the people with
\* another name instead of their names
RECURSIVE UniqueRelations_ById(_, _, _, _)
UniqueRelations_ById(relations, contact_list, main_person_name, unique_relations) ==
    IF relations = <<>> THEN unique_relations
    ELSE LET found == {k \in DOMAIN contact_list :
                            Get(contact_list[k], "ID") = PyInt(Head(relations))}
             other_contact == contact_list[CHOOSE k \in found : \A j \in found : k <= j]
             other_name == normalize_name(GetDefault(other_contact, "First Name", PyStr(<<>>)),
                                          GetDefault(other_contact, "Last Name", PyStr(<<>>)))
         IN  UniqueRelations_ById(Tail(relations), contact_list, main_person_name,
                IF found # {} /\ other_name # main_person_name
                THEN unique_relations \cup {Head(relations)}
                ELSE unique_relations)

\* unique_relations after the loop over relations: for each relation ID the
\* first contact of the list with that ID is looked at, and its name is added
\* when it is not the name of the contact itself
RECURSIVE UniqueRelations(_, _, _, _)
UniqueRelations(relations, contact_list, main_person_name, unique_relations) ==
    IF relations = <<>> THEN unique_relations
    ELSE LET found == {k \in DOMAIN contact_list :
                            Get(contact_list[k], "ID") = PyInt(Head(relations))}
             other_contact == contact_list[CHOOSE k \in found : \A j \in found : k <= j]
             other_name == normalize_name(GetDefault(other_contact, "First Name", PyStr(<<>>)),
                                          GetDefault(other_contact, "Last Name", PyStr(<<>>)))
         IN  UniqueRelations(Tail(relations), contact_list, main_person_name,
                IF found # {} /\ other_name # main_person_name /\ other_name # <<>>
                THEN unique_relations \cup {other_name}
                ELSE unique_relations)

\* count_unique_relations(contact, contact_list)
count_unique_relations(contact, contact_list) ==
    LET relations == GetDefault(contact, "Relations", PyList(<<>>))
    IN  IF ~Truthy(relations) THEN 0
        ELSE Cardinality(UniqueRelations(relations.l, contact_list,
                normalize_name(GetDefault(contact, "First Name", PyStr(<<>>)),
                               GetDefault(contact, "Last Name", PyStr(<<>>))),
                {}))

\* calculate_score counting relations against filtered_contacts whatever
\* is_idi says
ScorePopulation_Filtered(is_idi, idi_contacts, filtered_contacts) == filtered_contacts

\* the population calculate_score counts relations against
ScorePopulation(is_idi, idi_contacts, filtered_contacts) ==
    IF is_idi THEN idi_contacts ELSE filtered_contacts

\* score += 1 when the condition holds
Point(condition) == IF condition THEN 1 ELSE 0

\* calculate_score(contact, is_idi): the dict returned
calculate_score(contact, is_idi, idi_contacts, filtered_contacts) ==
    LET has_age == ~IsNone(Get(contact, "Age"))
        deceased_true == Get(contact, "Deceased") = PyBool(TRUE)
        addresses == LET given == GetDefault(contact, "Contact Addresses", PyList(<<>>))
                     IN  IF Truthy(given) THEN given ELSE PyList(<<>>)
        address_count == Len(addresses.l)
        relation_count ==
            count_unique_relations(contact,
                ScorePopulation(is_idi, idi_contacts, filtered_contacts))
    IN  [score |-> Point(has_age) + Point(deceased_true) + address_count + relation_count,
         details |->
            (IF has_age THEN <<[text |-> "Has Age", count |-> 1]>> ELSE <<>>)
            \o (IF deceased_true THEN <<[text |-> "Has Deceased=True", count |-> 1]>>
                ELSE <<>>)
            \o (IF address_count > 0
                THEN <<[text |-> "Has address(es)", count |-> address_count]>> ELSE <<>>)
            \o (IF relation_count > 0
                THEN <<[text |-> "Has unique relation(s)", count |-> relation_count]>>
                ELSE <<>>),
         breakdown |-> [has_age |-> has_age, deceased_true |-> deceased_true,
                        address_count |-> address_count,
                        relation_count |-> relation_count]]

\* the names of the people of a population: the scored contact's name as it
\* is written, the same name in another spelling, another name, and no name
ScoreNames == {PlainNames, <<PyStr(sALpad), PyStr(sbo)>>, <<PyStr(sCy), PyStr(sBo)>>,
               <<PyNone, PyNone>>}

\* the fields a scored contact can hold besides its ID and names; a key that
\* is left out is absent
ScoreValues(f) ==
    IF f = "Age" THEN {PyNone, PyInt(0), PyInt(30)}
    ELSE IF f = "Deceased" THEN {PyBool(TRUE), PyBool(FALSE), PyInt(1)}
    ELSE IF f = "Contact Addresses"
        THEN {PyNone, PyList(<<>>), PyList(<<"a">>), PyList(<<"a", "b">>)}
    ELSE {PyNone} \cup {PyList(q) : q \in ListsUpTo(2..(MaxPopulation + 1),
                                                     MaxScoreRelations)}

\* the scored contact: internal ID 1, a plain name
ScoredContacts ==
    UNION {{[f \in D \cup {"ID", "First Name", "Last Name", "Relations"} |->
                IF f = "ID" THEN PyInt(1)
                ELSE IF f = "First Name" THEN PlainNames[1]
                ELSE IF f = "Last Name" THEN PlainNames[2]
                ELSE IF f = "Relations" THEN relations
                ELSE d[f]] :
            d \in {x \in [D -> UNION {ScoreValues(f) : f \in D}] :
                        \A f \in D : x[f] \in ScoreValues(f)},
            relations \in ScoreValues("Relations")} :
           D \in {{}, {"Age", "Deceased", "Contact Addresses"}}}

\* the other contacts of a population: internal IDs from 2 on
OtherContact(id, names) ==
    [f \in {"ID", "First Name", "Last Name"} |->
        IF f = "ID" THEN PyInt(id)
        ELSE IF f = "First Name" THEN names[1] ELSE names[2]]

ScoreInit ==
    /\ NameIdle
    /\ MergeIdle
    /\ DedupIdle
    /\ RelationsIdle
    /\ TraverseIdle
    /\ FindIdle
    /\ BatchIdle
    /\ PhoneIdle
    /\ s_contact \in ScoredContacts
    /\ s_is_idi \in BOOLEAN
    /\ \E names \in [2..MaxPopulation -> ScoreNames] :
        LET with_others ==
                <<s_contact>> \o [k \in 1..(MaxPopulation - 1) |->
                                    OtherContact(k + 1, names[k + 1])]
        IN  /\ s_idi_contacts = IF s_is_idi THEN with_others ELSE <<s_contact>>
            /\ s_filtered_contacts = IF s_is_idi THEN <<s_contact>> ELSE with_others
    /\ s_result = EmptyDict
    /\ s_pc = "call"

\* self.calculate_score(contact, is_idi)
CalculateScore ==
    /\ s_pc = "call"
    /\ s_result' = calculate_score(s_contact, s_is_idi, s_idi_contacts,
                                   s_filtered_contacts)
    /\ s_pc' = "done"
    /\ UNCHANGED <<s_contact, s_idi_contacts, s_filtered_contacts, s_is_idi>>
    /\ UNCHANGED notScore

ScoreNext == CalculateScore

SpecScore == ScoreInit /\ [][ScoreNext]_vars

\* the people related to the scored contact: the normalized names of the
\* contacts of the population its relation IDs resolve to, its own name left
\* out
RelatedPeople ==
    LET population == IF s_is_idi THEN s_idi_contacts ELSE s_filtered_contacts
        relations == Get(s_contact, "Relations")
        own == normalize_name(s_contact["First Name"], s_contact["Last Name"])
    IN  IF ~IsList(relations) THEN {}
        ELSE {normalize_name(Get(c, "First Name"), Get(c, "Last Name")) :
                c \in {population[CHOOSE k \in DOMAIN population :
                            /\ Get(population[k], "ID") = PyInt(id)
                            /\ \A j \in 1..(k - 1) :
                                Get(population[j], "ID") # PyInt(id)] :
                       id \in {x \in Range(relations.l) :
                                \E k \in DOMAIN population :
                                    Get(population[k], "ID") = PyInt(x)}}}
             \ {own}

\* the number of Contact Addresses of the scored contact
AddressCount ==
    LET addresses == Get(s_contact, "Contact Addresses")
    IN  IF IsList(addresses) THEN Len(addresses.l) ELSE 0

\* C19: the score calculate_score returns is (1 if Age is held) + (1 if
\* Deceased is exactly true) + the number of Contact Addresses + the number of
\* unique related people; the breakdown holds each term and its terms add up
\* to the score; the call changes neither the contact nor the populations.
C19_ScoreIsSumOfTerms ==
    /\ [](s_pc = "done" =>
            /\ s_result.score =
                Point(Get(s_contact, "Age") # PyNone)
                + Point(Get(s_contact, "Deceased") = PyBool(TRUE))
                + AddressCount + Cardinality(RelatedPeople)
            /\ s_result.breakdown.has_age = (Get(s_contact, "Age") # PyNone)
            /\ s_result.breakdown.deceased_true = (Get(s_contact, "Deceased") = PyBool(TRUE))
            /\ s_result.breakdown.address_count = AddressCount
            /\ s_result.breakdown.relation_count = Cardinality(RelatedPeople)
            /\ s_result.score =
                Point(s_result.breakdown.has_age) + Point(s_result.breakdown.deceased_true)
                + s_result.breakdown.address_count + s_result.breakdown.relation_count)
    /\ [][/\ s_contact' = s_contact
          /\ s_idi_contacts' = s_idi_contacts
          /\ s_filtered_contacts' = s_filtered_contacts]_vars

\* C19 witness: the example of the specification: Age 30, Deceased true, two
\* addresses and one resolvable related person score 1 + 1 + 2 + 1 = 5.
C19_Witness ==
    /\ s_pc = "done"
    /\ Get(s_contact, "Age") = PyInt(30)
    /\ Get(s_contact, "Deceased") = PyBool(TRUE)
    /\ AddressCount = 2
    /\ Cardinality(RelatedPeople) = 1
    /\ s_result.score = 5
    /\ s_result.breakdown = [has_age |-> TRUE, deceased_true |-> TRUE,
                             address_count |-> 2, relation_count |-> 1]

\* the relation IDs of the scored contact that resolve: a contact of the
\* population is_idi selects has the ID
ResolvedIds ==
    LET population == IF s_is_idi THEN s_idi_contacts ELSE s_filtered_contacts
        relations == Get(s_contact, "Relations")
    IN  IF ~IsList(relations) THEN {}
        ELSE {id \in Range(relations.l) :
                \E k \in DOMAIN population : Get(population[k], "ID") = PyInt(id)}

\* the normalized name of the contact of the population a relation ID
\* resolves to
ResolvedName(id) ==
    LET population == IF s_is_idi THEN s_idi_contacts ELSE s_filtered_contacts
        other == population[CHOOSE k \in DOMAIN population :
                                Get(population[k], "ID") = PyInt(id)]
    IN  normalize_name(Get(other, "First Name"), Get(other, "Last Name"))

\* C25: the relation count is the number of distinct normalized names of the
\* contacts the relation IDs resolve to in the population, where an ID that
\* does not resolve and an ID that resolves to a contact with the normalized
\* name of the scored contact itself are left out, and two IDs that resolve
\* to the same normalized name count once.
C25_CountsDistinctNames ==
    s_pc = "done" =>
        LET own == normalize_name(s_contact["First Name"], s_contact["Last Name"])
            counted == {id \in ResolvedIds : ResolvedName(id) # own}
            relation_count == s_result.breakdown.relation_count
        IN  /\ relation_count = Cardinality({ResolvedName(id) : id \in counted})
            /\ relation_count <= Cardinality(counted)
            /\ counted = {} => relation_count = 0
            /\ (\A x, y \in counted : ResolvedName(x) = ResolvedName(y)) /\ counted # {}
                    => relation_count = 1

\* C25 witness: relation IDs 2 and 3 resolve to two contacts with the same
\* normalized name, another one than the scored contact's, and count once.
C25_Witness ==
    /\ s_pc = "done"
    /\ Get(s_contact, "Relations") = PyList(<<2, 3>>)
    /\ ResolvedIds = {2, 3}
    /\ ResolvedName(2) = ResolvedName(3)
    /\ ResolvedName(2) # normalize_name(s_contact["First Name"], s_contact["Last Name"])
    /\ s_result.breakdown.relation_count = 1

(***************************************************************************)
(* Specification SpecName: normalize_name over two (first, last) pairs     *)
(***************************************************************************)
MaxNameLen == 2

NameAlphabet == {"a", "A", "b", " ", "|"}

RECURSIVE StringsUpTo(_, _)
StringsUpTo(alphabet, len) ==
    IF len = 0 THEN {<<>>}
    ELSE LET shorter == StringsUpTo(alphabet, len - 1)
         IN  shorter \cup {Append(s, c) : s \in shorter, c \in alphabet}

NameParts == {PyNone} \cup {PyStr(s) : s \in StringsUpTo(NameAlphabet, MaxNameLen)}

PartLen(v) == IF IsStr(v) THEN Len(v.s) ELSE 0

NamePairs == {p \in NameParts \X NameParts : PartLen(p[1]) + PartLen(p[2]) <= MaxNameLen}

NameInit ==
    /\ MergeIdle
    /\ DedupIdle
    /\ RelationsIdle
    /\ TraverseIdle
    /\ FindIdle
    /\ BatchIdle
    /\ PhoneIdle
    /\ ScoreIdle
    /\ \E p \in NamePairs, q \in NamePairs :
        /\ n_first1 = p[1] /\ n_last1 = p[2]
        /\ n_first2 = q[1] /\ n_last2 = q[2]
    /\ n_key1 = <<>>
    /\ n_key2 = <<>>
    /\ n_pc = "start"

NormalizeBoth ==
    /\ n_pc = "start"
    /\ n_key1' = normalize_name(n_first1, n_last1)
    /\ n_key2' = normalize_name(n_first2, n_last2)
    /\ n_pc' = "done"
    /\ UNCHANGED <<n_first1, n_last1, n_first2, n_last2>>
    /\ UNCHANGED notName

NameNext == NormalizeBoth

SpecName == NameInit /\ [][NameNext]_vars

\* the trimmed, lower-cased form of one name part, as the claim words it
TrimLower(v) == IF IsStr(v) THEN Lower(Strip(v.s)) ELSE <<>>

\* C10: the name key decides name-level matching exactly: two (first, last)
\* pairs get equal keys if and only if their trimmed, lower-cased first names
\* are equal and their trimmed, lower-cased last names are equal.
C10_KeyDecidesMatch ==
    n_pc = "done" =>
        ((n_key1 = n_key2) <=>
            (/\ TrimLower(n_first1) = TrimLower(n_first2)
             /\ TrimLower(n_last1) = TrimLower(n_last2)))

====
